---------------------------- MODULE Spec2Model ----------------------------
(***************************************************************************)
(* A model of the Aris proof checker's rule catalog (aris/src/rules.rs):   *)
(* the rule table and its serialized names, the shared arity checks, the   *)
(* any_order / either_order combinators and the bodies of the inference    *)
(* rules.  `check` is a pure function of a read-only proof snapshot, a     *)
(* conclusion and two lists of references; every action below applies it   *)
(* (or one of its helpers) to inputs drawn from bounded sets and records    *)
(* the inputs and the value returned.                                       *)
(***************************************************************************)
EXTENDS Integers, Sequences, FiniteSets, TLC

VARIABLES
    pc,          \* which operation produced the current state
    proof,       \* the proof snapshot `p` handed to check
    rule,        \* the Rule value being checked (<<family, variant>>)
    conclusion,  \* the step's expression
    deps,        \* Vec<PJRef<P>>: direct dependencies
    sdeps,       \* Vec<P::SubproofReference>: subproof dependencies
    iterResumes, \* does `results` yield again after any() has exhausted it
    hashPick,    \* position in a HashSet's iteration order that is visited first
    normEqual,   \* do the two normal forms of an equivalence rule compare equal
    normalizer,  \* an equivalence rule's normalize_fn and sort_commutative_ops, as tables
    table,       \* any_order's check_func, as a table over the orderings
    wire,        \* a serialized rule name
    inner,       \* did SharedChecks::check hand the call on to the rule's own check
    result,      \* the value returned
    nextId,      \* web-app util: the static NEXT_ID of uid()
    ids,         \* the values uid() has returned, each with the thread that got it
    tokens,      \* the text handed to the expression parser, as tokens
    added,       \* what each reference returned by an add_* call was returned for
    app,         \* the App component: its links and registered proofs
    handled,     \* the messages App::update has handled, with the App before and after
    outbox       \* the messages the App and its closures have sent to other components

\* what a rule check reads and writes besides pc and result
checkVars == <<proof, rule, conclusion, deps, sdeps, iterResumes, hashPick, normEqual,
               normalizer, table, wire, inner>>
\* the state of the id generator, the parser, the proof under construction
\* and the App component
webVars == <<nextId, ids, tokens, added, app, handled, outbox>>

vars == <<pc, result, checkVars, webVars>>

-----------------------------------------------------------------------------
(* Bounds of the model. *)

\* longest list of direct dependencies handed to check
MaxDeps == 3
\* longest list of subproof dependencies handed to check
MaxSubDeps == 2
\* number of distinct definite errors any_order's check_func may return
MaxErrKinds == 2
\* number of strings that are not serialized names offered to from_serialized_name
MaxBadNames == 3
\* longest list of dependencies handed to ConjunctionIntroduction
MaxConjuncts == 3
\* longest list of subproofs handed to DisjunctionElimination
MaxCases == 2
\* longest list of direct dependencies handed to the two <-> introductions
MaxIntroDeps == 2
\* longest list of subproofs handed to the two <-> introductions
MaxIntroSubs == 2
\* longest list of dependencies handed to TautologicalConsequence and
\* AsymmetricTautology
MaxPremises == 2

\* most operands of a conclusion handed to ExcludedMiddle
MaxOperands == 3

\* most operands of a chain handed to the expression parser
MaxChain == 3

\* threads calling uid() concurrently
MaxThreads == 3

\* width in bits of the counter behind uid() (usize in the code)
UidBits == 2

\* calls of uid() in one run: enough for the counter to wrap around
MaxUidCalls == 5
MaxAdds == 4
MaxAppMsgs == 4

-----------------------------------------------------------------------------
(* Expressions (crate::expr::Expr), as far as the rules inspect them. *)

Var(n) == [tag |-> "Var", name |-> n]
Contra == [tag |-> "Contra"]
Not(e) == [tag |-> "Not", operand |-> e]
Impl(l, r) == [tag |-> "Impl", left |-> l, right |-> r]
Assoc(o, es) == [tag |-> "Assoc", op |-> o, exprs |-> es]
Or2(l, r) == Assoc("Or", <<l, r>>)

IsNot(e) == e.tag = "Not"
IsImpl(e) == e.tag = "Impl"
IsAssocOf(e, o) == e.tag = "Assoc" /\ e.op = o

\* Expr::assocplaceholder(op), Expr::impl_place_holder()
AssocPlaceholder(o) == Assoc(o, <<Var("_"), Var("_"), Var("...")>>)
ImplPlaceHolder == Impl(Var("_"), Var("_"))

\* the elements of a sequence
Range(s) == {s[i] : i \in 1..Len(s)}

\* the least index of a set of indices, or 0: where a `for` loop returns early
FirstIndex(S) == IF S = {} THEN 0 ELSE CHOOSE i \in S : \A j \in S : i <= j

-----------------------------------------------------------------------------
(* ProofCheckError, and the two other ways a call of check can end. *)

Ok == [tag |-> "Ok"]
Panic(what) == [tag |-> "Panic", what |-> what]

LineDoesNotExist(r) == [tag |-> "LineDoesNotExist", ref |-> r]
SubproofDoesNotExist(s) == [tag |-> "SubproofDoesNotExist", sref |-> s]
IncorrectDepCount(ds, n) == [tag |-> "IncorrectDepCount", deps |-> ds, n |-> n]
IncorrectSubDepCount(sds, n) == [tag |-> "IncorrectSubDepCount", sdeps |-> sds, n |-> n]
DepOfWrongForm(x, y) == [tag |-> "DepOfWrongForm", actual |-> x, expected |-> y]
ConclusionOfWrongForm(x) == [tag |-> "ConclusionOfWrongForm", expected |-> x]
DoesNotOccur(x, y) == [tag |-> "DoesNotOccur", needle |-> x, haystack |-> y]
DepDoesNotExist(x, approx) == [tag |-> "DepDoesNotExist", expr |-> x, approx |-> approx]
OneOf(errs) == [tag |-> "OneOf", errs |-> errs]
\* Other(String): the message's fixed text and the expressions formatted into it
Other(msg, args) == [tag |-> "Other", msg |-> msg, args |-> args]

ErrorTags == {"LineDoesNotExist", "SubproofDoesNotExist", "ReferencesLaterLine",
              "IncorrectDepCount", "IncorrectSubDepCount", "DepOfWrongForm",
              "ConclusionOfWrongForm", "DoesNotOccur", "DepDoesNotExist", "OneOf",
              "Other"}

IsOk(r) == r.tag = "Ok"

-----------------------------------------------------------------------------
(* The proof interface (crate::proofs::Proof) the rules read through.  A   *)
(* proof is a pool of lines, each a premise or a justified step, and a pool *)
(* of subproofs, each a list of premise references and a list of lines     *)
(* (references to steps, "J", or to nested subproofs, "S").  A reference    *)
(* beyond the pool is one whose line has been removed.                      *)

HasLine(p, r) == r \in 1..Len(p.lines)
HasSubproof(p, s) == s \in 1..Len(p.subproofs)
\* lookup_expr: the expression of a premise or of a step
LookupExpr(p, r) == p.lines[r].expr
\* lookup_premise / lookup_step answer for a reference of their own kind only
HasPremise(p, r) == HasLine(p, r) /\ p.lines[r].kind = "premise"
HasStep(p, r) == HasLine(p, r) /\ p.lines[r].kind = "step"
LookupSubproof(p, s) == p.subproofs[s]
\* Subproof::exprs(): the lines that carry an expression, subproofs left out
SubproofExprs(sp) == SelectSeq(sp.lines, LAMBDA l : l.kind = "J")
\* the reference of a line that does not exist
StaleRef(p) == Len(p.lines) + 1

A == Var("A")
B == Var("B")

Premise(e) == [kind |-> "premise", expr |-> e]
\* a Justification (expression, rule, dependencies): the rule a step names is
\* the empty rule until the user chooses one
Step(e) == [kind |-> "step", expr |-> e, rule |-> <<"EmptyRule", "EmptyRule">>]
J(r) == [kind |-> "J", ref |-> r]

\* The snapshot the checks run against: nine top-level premises and three
\* subproofs, with one, two and no premises.
PoolProof ==
    [lines |-> << Premise(A), Premise(B), Premise(Not(A)), Premise(Not(B)),
                  Premise(Impl(A, B)), Premise(Impl(B, A)), Premise(Or2(A, B)),
                  Premise(Assoc("Bicon", <<A, B>>)), Premise(Assoc("Equiv", <<A, B>>)),
                  Premise(A), Step(B), Step(Contra),
                  Premise(A), Premise(B), Step(A) >>,
     premises |-> <<1, 2, 3, 4, 5, 6, 7, 8, 9>>,
     subproofs |-> << [premises |-> <<10>>, lines |-> <<J(11), J(12)>>],
                      [premises |-> <<13, 14>>, lines |-> <<J(15)>>],
                      [premises |-> <<>>, lines |-> <<>>] >>]

C == Var("C")

\* A snapshot for the rules that discharge subproofs: nine top-level premises
\* and four subproofs; the third has two premises, the fourth assumes C.
NdProof ==
    [lines |-> << Premise(A), Premise(Assoc("And", <<A, B, C>>)), Premise(Or2(A, B)),
                  Premise(Impl(A, B)), Premise(Impl(B, A)),
                  Premise(Assoc("Bicon", <<A, B>>)), Premise(Assoc("Bicon", <<A, B, C>>)),
                  Premise(Assoc("Bicon", <<B, C>>)), Premise(Assoc("Equiv", <<B, C>>)),
                  Premise(A), Step(B), Step(C), Step(Contra),
                  Premise(B), Step(A), Step(C),
                  Premise(A), Premise(B), Step(C),
                  Premise(C), Step(C) >>,
     premises |-> <<1, 2, 3, 4, 5, 6, 7, 8, 9>>,
     subproofs |-> << [premises |-> <<10>>, lines |-> <<J(11), J(12), J(13)>>],
                      [premises |-> <<14>>, lines |-> <<J(15), J(16)>>],
                      [premises |-> <<17, 18>>, lines |-> <<J(19)>>],
                      [premises |-> <<20>>, lines |-> <<J(21)>>] >>]

-----------------------------------------------------------------------------
(* The rule table of RuleM (declare_rules!): identifier, serialized name   *)
(* and value of every rule, in the order of ALL_RULES.                      *)

RuleTable == <<
    [id |-> "Reit", name |-> "REITERATION", value |-> <<"PrepositionalInference", "Reit">>],
    [id |-> "AndIntro", name |-> "CONJUNCTION", value |-> <<"PrepositionalInference", "AndIntro">>],
    [id |-> "AndElim", name |-> "SIMPLIFICATION", value |-> <<"PrepositionalInference", "AndElim">>],
    [id |-> "OrIntro", name |-> "ADDITION", value |-> <<"PrepositionalInference", "OrIntro">>],
    [id |-> "OrElim", name |-> "DISJUNCTIVE_SYLLOGISM", value |-> <<"PrepositionalInference", "OrElim">>],
    [id |-> "ImpIntro", name |-> "CONDITIONAL_PROOF", value |-> <<"PrepositionalInference", "ImpIntro">>],
    [id |-> "ImpElim", name |-> "MODUS_PONENS", value |-> <<"PrepositionalInference", "ImpElim">>],
    [id |-> "NotIntro", name |-> "PROOF_BY_CONTRADICTION", value |-> <<"PrepositionalInference", "NotIntro">>],
    [id |-> "NotElim", name |-> "DOUBLENEGATION", value |-> <<"PrepositionalInference", "NotElim">>],
    [id |-> "ContradictionIntro", name |-> "CONTRADICTION", value |-> <<"PrepositionalInference", "ContradictionIntro">>],
    [id |-> "ContradictionElim", name |-> "PRINCIPLE_OF_EXPLOSION", value |-> <<"PrepositionalInference", "ContradictionElim">>],
    [id |-> "BiconditionalIntro", name |-> "BICONDITIONAL_INTRO", value |-> <<"PrepositionalInference", "BiconditionalIntro">>],
    [id |-> "BiconditionalElim", name |-> "BICONDITIONAL_ELIM", value |-> <<"PrepositionalInference", "BiconditionalElim">>],
    [id |-> "EquivalenceIntro", name |-> "EQUIVALENCE_INTRO", value |-> <<"PrepositionalInference", "EquivalenceIntro">>],
    [id |-> "EquivalenceElim", name |-> "EQUIVALENCE_ELIM", value |-> <<"PrepositionalInference", "EquivalenceElim">>],
    [id |-> "ForallIntro", name |-> "UNIVERSAL_GENERALIZATION", value |-> <<"PredicateInference", "ForallIntro">>],
    [id |-> "ForallElim", name |-> "UNIVERSAL_INSTANTIATION", value |-> <<"PredicateInference", "ForallElim">>],
    [id |-> "ExistsIntro", name |-> "EXISTENTIAL_GENERALIZATION", value |-> <<"PredicateInference", "ExistsIntro">>],
    [id |-> "ExistsElim", name |-> "EXISTENTIAL_INSTANTIATION", value |-> <<"PredicateInference", "ExistsElim">>],
    [id |-> "ModusTollens", name |-> "MODUS_TOLLENS", value |-> <<"RedundantPrepositionalInference", "ModusTollens">>],
    [id |-> "HypotheticalSyllogism", name |-> "HYPOTHETICAL_SYLLOGISM", value |-> <<"RedundantPrepositionalInference", "HypotheticalSyllogism">>],
    [id |-> "ExcludedMiddle", name |-> "EXCLUDED_MIDDLE", value |-> <<"RedundantPrepositionalInference", "ExcludedMiddle">>],
    [id |-> "ConstructiveDilemma", name |-> "CONSTRUCTIVE_DILEMMA", value |-> <<"RedundantPrepositionalInference", "ConstructiveDilemma">>],
    [id |-> "Association", name |-> "ASSOCIATION", value |-> <<"BooleanEquivalence", "Association">>],
    [id |-> "Commutation", name |-> "COMMUTATION", value |-> <<"BooleanEquivalence", "Commutation">>],
    [id |-> "Idempotence", name |-> "IDEMPOTENCE", value |-> <<"BooleanEquivalence", "Idempotence">>],
    [id |-> "DeMorgan", name |-> "DE_MORGAN", value |-> <<"BooleanEquivalence", "DeMorgan">>],
    [id |-> "Distribution", name |-> "DISTRIBUTION", value |-> <<"BooleanEquivalence", "Distribution">>],
    [id |-> "DoubleNegation", name |-> "DOUBLENEGATION_EQUIV", value |-> <<"BooleanEquivalence", "DoubleNegation">>],
    [id |-> "Complement", name |-> "COMPLEMENT", value |-> <<"BooleanEquivalence", "Complement">>],
    [id |-> "Identity", name |-> "IDENTITY", value |-> <<"BooleanEquivalence", "Identity">>],
    [id |-> "Annihilation", name |-> "ANNIHILATION", value |-> <<"BooleanEquivalence", "Annihilation">>],
    [id |-> "Inverse", name |-> "INVERSE", value |-> <<"BooleanEquivalence", "Inverse">>],
    [id |-> "Absorption", name |-> "ABSORPTION", value |-> <<"BooleanEquivalence", "Absorption">>],
    [id |-> "Reduction", name |-> "REDUCTION", value |-> <<"BooleanEquivalence", "Reduction">>],
    [id |-> "Adjacency", name |-> "ADJACENCY", value |-> <<"BooleanEquivalence", "Adjacency">>],
    [id |-> "CondComplement", name |-> "CONDITIONAL_COMPLEMENT", value |-> <<"ConditionalEquivalence", "Complement">>],
    [id |-> "CondIdentity", name |-> "CONDITIONAL_IDENTITY", value |-> <<"ConditionalEquivalence", "Identity">>],
    [id |-> "CondAnnihilation", name |-> "CONDITIONAL_ANNIHILATION", value |-> <<"ConditionalEquivalence", "Annihilation">>],
    [id |-> "Implication", name |-> "IMPLICATION", value |-> <<"ConditionalEquivalence", "Implication">>],
    [id |-> "BiImplication", name |-> "BI_IMPLICATION", value |-> <<"ConditionalEquivalence", "BiImplication">>],
    [id |-> "Contraposition", name |-> "CONTRAPOSITION", value |-> <<"ConditionalEquivalence", "Contraposition">>],
    [id |-> "Currying", name |-> "CURRYING", value |-> <<"ConditionalEquivalence", "Currying">>],
    [id |-> "ConditionalDistribution", name |-> "CONDITIONAL_DISTRIBUTION", value |-> <<"ConditionalEquivalence", "ConditionalDistribution">>],
    [id |-> "ConditionalReduction", name |-> "CONDITIONAL_REDUCTION", value |-> <<"ConditionalEquivalence", "ConditionalReduction">>],
    [id |-> "KnightsAndKnaves", name |-> "KNIGHTS_AND_KNAVES", value |-> <<"ConditionalEquivalence", "KnightsAndKnaves">>],
    [id |-> "ConditionalIdempotence", name |-> "CONDITIONAL_IDEMPOTENCE", value |-> <<"ConditionalEquivalence", "ConditionalIdempotence">>],
    [id |-> "BiconditionalNegation", name |-> "BICONDITIONAL_NEGATION", value |-> <<"ConditionalEquivalence", "BiconditionalNegation">>],
    [id |-> "BiconditionalSubstitution", name |-> "BICONDITIONAL_SUBSTITUTION", value |-> <<"ConditionalEquivalence", "BiconditionalSubstitution">>],
    [id |-> "AsymmetricTautology", name |-> "ASYMMETRIC_TAUTOLOGY", value |-> <<"AutomationRelatedRules", "AsymmetricTautology">>],
    [id |-> "Resolution", name |-> "RESOLUTION", value |-> <<"AutomationRelatedRules", "Resolution">>],
    [id |-> "TautologicalConsequence", name |-> "TAUTOLOGICAL_CONSEQUENCE", value |-> <<"AutomationRelatedRules", "TautologicalConsequence">>],
    [id |-> "QuantifierNegation", name |-> "QUANTIFIER_NEGATION", value |-> <<"QuantifierEquivalence", "QuantifierNegation">>],
    [id |-> "NullQuantification", name |-> "NULL_QUANTIFICATION", value |-> <<"QuantifierEquivalence", "NullQuantification">>],
    [id |-> "ReplacingBoundVars", name |-> "REPLACING_BOUND_VARS", value |-> <<"QuantifierEquivalence", "ReplacingBoundVars">>],
    [id |-> "SwappingQuantifiers", name |-> "SWAPPING_QUANTIFIERS", value |-> <<"QuantifierEquivalence", "SwappingQuantifiers">>],
    [id |-> "AristoteleanSquare", name |-> "ARISTOTELEAN_SQUARE", value |-> <<"QuantifierEquivalence", "AristoteleanSquare">>],
    [id |-> "QuantifierDistribution", name |-> "QUANTIFIER_DISTRIBUTION", value |-> <<"QuantifierEquivalence", "QuantifierDistribution">>],
    [id |-> "PrenexLaws", name |-> "PRENEX_LAWS", value |-> <<"QuantifierEquivalence", "PrenexLaws">>],
    [id |-> "EmptyRule", name |-> "EMPTY_RULE", value |-> <<"EmptyRule", "EmptyRule">>] >>

ALL_RULES == [i \in 1..Len(RuleTable) |-> RuleTable[i].value]
ALL_SERIALIZED_NAMES == [i \in 1..Len(RuleTable) |-> RuleTable[i].name]
Rules == Range(ALL_RULES)

None == [some |-> FALSE]
Some(x) == [some |-> TRUE, val |-> x]

\* to_serialized_name answering with the rule's identifier
ToSerializedId(r) ==
    RuleTable[FirstIndex({i \in 1..Len(RuleTable) : RuleTable[i].value = r})].id

\* a `match`: the first arm whose pattern is the value decides
ToSerializedName(r) ==
    RuleTable[FirstIndex({i \in 1..Len(RuleTable) : RuleTable[i].value = r})].name

FromSerializedName(name) ==
    LET i == FirstIndex({k \in 1..Len(RuleTable) : RuleTable[k].name = name})
    IN IF i = 0 THEN None ELSE Some(RuleTable[i].value)

Family(r) == r[1]
Variant(r) == r[2]
RuleOf(id) == RuleTable[CHOOSE i \in 1..Len(RuleTable) : RuleTable[i].id = id].value

EquivalenceFamilies == {"BooleanEquivalence", "ConditionalEquivalence", "QuantifierEquivalence"}

\* RuleT::num_deps, through SharedChecks and Coproduct
NumDeps(r) ==
    CASE Family(r) = "PrepositionalInference" ->
           (CASE Variant(r) \in {"Reit", "AndElim", "OrIntro", "OrElim", "NotElim",
                                 "ContradictionElim"} -> Some(1)
              [] Variant(r) \in {"ContradictionIntro", "ImpElim", "BiconditionalElim",
                                 "EquivalenceElim"} -> Some(2)
              [] Variant(r) \in {"NotIntro", "ImpIntro"} -> Some(0)
              [] Variant(r) \in {"AndIntro", "BiconditionalIntro", "EquivalenceIntro"} -> None)
      [] Family(r) = "PredicateInference" ->
           (CASE Variant(r) \in {"ExistsIntro", "ExistsElim", "ForallElim"} -> Some(1)
              [] Variant(r) = "ForallIntro" -> Some(0))
      [] Family(r) \in EquivalenceFamilies -> Some(1)
      [] Family(r) = "RedundantPrepositionalInference" ->
           (CASE Variant(r) \in {"ModusTollens", "HypotheticalSyllogism"} -> Some(2)
              [] Variant(r) = "ExcludedMiddle" -> Some(0)
              [] Variant(r) = "ConstructiveDilemma" -> Some(3))
      [] Family(r) = "AutomationRelatedRules" ->
           (CASE Variant(r) = "AsymmetricTautology" -> None
              [] Variant(r) = "Resolution" -> Some(2)
              [] Variant(r) = "TautologicalConsequence" -> None)
      [] Family(r) = "EmptyRule" -> None

\* RuleT::num_subdeps
NumSubdeps(r) ==
    CASE Family(r) = "PrepositionalInference" ->
           (CASE Variant(r) \in {"NotIntro", "ImpIntro"} -> Some(1)
              [] Variant(r) \in {"Reit", "AndElim", "OrIntro", "NotElim", "ContradictionElim",
                                 "ContradictionIntro", "ImpElim", "AndIntro",
                                 "BiconditionalElim", "EquivalenceElim"} -> Some(0)
              [] Variant(r) \in {"OrElim", "BiconditionalIntro", "EquivalenceIntro"} -> None)
      [] Family(r) = "PredicateInference" ->
           (CASE Variant(r) \in {"ExistsIntro", "ForallElim"} -> Some(0)
              [] Variant(r) \in {"ForallIntro", "ExistsElim"} -> Some(1))
      [] Family(r) \in EquivalenceFamilies -> Some(0)
      [] Family(r) = "RedundantPrepositionalInference" -> Some(0)
      [] Family(r) = "AutomationRelatedRules" -> Some(0)
      [] Family(r) = "EmptyRule" -> None

\* RuleT::get_classifications
GetClassifications(r) ==
    CASE Family(r) = "PrepositionalInference" ->
           (CASE Variant(r) = "Reit" -> {"MiscInference"}
              [] Variant(r) \in {"AndIntro", "OrIntro", "ImpIntro", "NotIntro",
                                 "ContradictionIntro", "BiconditionalIntro",
                                 "EquivalenceIntro"} -> {"Introduction"}
              [] OTHER -> {"Elimination"})
      [] Family(r) = "PredicateInference" ->
           (IF Variant(r) \in {"ForallIntro", "ExistsIntro"}
            THEN {"Introduction"} ELSE {"Elimination"})
      [] Family(r) = "BooleanEquivalence" -> {"BooleanEquivalence"}
      [] Family(r) = "ConditionalEquivalence" -> {"ConditionalEquivalence"}
      [] Family(r) = "QuantifierEquivalence" -> {"QuantifierEquivalence"}
      [] Family(r) = "RedundantPrepositionalInference" -> {"MiscInference"}
      [] Family(r) = "AutomationRelatedRules" -> {"MiscInference"}
      [] Family(r) = "EmptyRule" -> {}

RuleClassifications == {"Introduction", "Elimination", "BooleanEquivalence",
                        "ConditionalEquivalence", "QuantifierEquivalence", "MiscInference"}

\* RuleClassification::rules
ClassificationRules(c) == {r \in Rules : c \in GetClassifications(r)}

-----------------------------------------------------------------------------
(* any_order / either_order.  check_func is given as the function from the *)
(* orderings of the dependencies to AnyOrderResult.                         *)

AnyOk == [tag |-> "Ok"]
AnyErr(e) == [tag |-> "Err", err |-> e]
WrongOrder == [tag |-> "WrongOrder"]

\* Itertools::permutations(deps.len()): the orderings by position
Orderings(ds) ==
    LET n == Len(ds)
        perms == {f \in [1..n -> 1..n] : \A i, j \in 1..n : f[i] = f[j] => i = j}
    IN {[i \in 1..n |-> ds[f[i]]] : f \in perms}

\* any_order trying the dependencies in the order given only
AnyOrderAsGiven(ds, check_func, fallthrough_error, resumes) ==
    LET results == {check_func[ds]} \ {WrongOrder}
        again == IF resumes THEN results ELSE {}
        errors == {x.err : x \in {y \in again : y.tag = "Err"}}
    IN IF \E x \in results : x = AnyOk
       THEN Ok
       ELSE CASE Cardinality(errors) = 0 -> fallthrough_error
              [] Cardinality(errors) = 1 -> CHOOSE e \in errors : TRUE
              [] OTHER -> OneOf(errors)

\* `results` is a lazy iterator.  results.any(..) stops at the first Ok; when
\* there is none it has drawn every ordering and met the iterator's end.  The
\* else-branch then draws from the same iterator again: what an iterator
\* yields after its end is left open by the Iterator contract, so it yields
\* either every ordering anew (resumes) or nothing.
AnyOrder(ds, check_func, fallthrough_error, resumes) ==
    LET results == {check_func[q] : q \in Orderings(ds)} \ {WrongOrder}
        again == IF resumes THEN results ELSE {}
        errors == {x.err : x \in {y \in again : y.tag = "Err"}}
    IN IF \E x \in results : x = AnyOk
       THEN Ok
       ELSE CASE Cardinality(errors) = 0 -> fallthrough_error
              [] Cardinality(errors) = 1 -> CHOOSE e \in errors : TRUE
              [] OTHER -> OneOf(errors)

EitherOrder(dep_1, dep_2, check_func, fallthrough_error, resumes) ==
    AnyOrder(<<dep_1, dep_2>>, check_func, fallthrough_error, resumes)

ContradictCheckFunc(i, j) ==
    IF IsNot(i) /\ i.operand = j THEN AnyOk ELSE WrongOrder

DoExpressionsContradict(prem1, prem2, resumes) ==
    EitherOrder(prem1, prem2,
                [q \in Orderings(<<prem1, prem2>>) |-> ContradictCheckFunc(q[1], q[2])],
                Other("Expected one of {} to be the negation of the other.", <<prem1, prem2>>),
                resumes)

-----------------------------------------------------------------------------
(* impl RuleT for PrepositionalInference: check *)

\* Reiteration reporting the two expressions the other way round
ReitCheckSwapped(p, c, ds) ==
    IF ~HasLine(p, ds[1]) THEN LineDoesNotExist(ds[1])
    ELSE LET prem == LookupExpr(p, ds[1])
         IN IF prem = c THEN Ok ELSE DoesNotOccur(prem, c)

ReitCheck(p, c, ds) ==
    IF ~HasLine(p, ds[1]) THEN LineDoesNotExist(ds[1])
    ELSE LET prem == LookupExpr(p, ds[1])
         IN IF prem = c THEN Ok ELSE DoesNotOccur(c, prem)

\* ConjunctionIntroduction without its second loop
AndIntroCheckFirstLoop(p, c, ds) ==
    IF IsAssocOf(c, "And")
    THEN LET bad == FirstIndex({i \in 1..Len(ds) :
                         ~HasLine(p, ds[i]) \/ LookupExpr(p, ds[i]) \notin Range(c.exprs)})
         IN IF bad # 0
            THEN (IF ~HasLine(p, ds[bad]) THEN LineDoesNotExist(ds[bad])
                  ELSE DoesNotOccur(LookupExpr(p, ds[bad]), c))
            ELSE Ok
    ELSE ConclusionOfWrongForm(AssocPlaceholder("And"))

AndIntroCheck(p, c, ds) ==
    IF IsAssocOf(c, "And")
    THEN LET bad == FirstIndex({i \in 1..Len(ds) :
                         ~HasLine(p, ds[i]) \/ LookupExpr(p, ds[i]) \notin Range(c.exprs)})
             missing == FirstIndex({k \in 1..Len(c.exprs) :
                         ~\E i \in 1..Len(ds) :
                             HasLine(p, ds[i]) /\ LookupExpr(p, ds[i]) = c.exprs[k]})
         IN IF bad # 0
            THEN (IF ~HasLine(p, ds[bad]) THEN LineDoesNotExist(ds[bad])
                  ELSE DoesNotOccur(LookupExpr(p, ds[bad]), c))
            ELSE IF missing # 0 THEN DepDoesNotExist(c.exprs[missing], FALSE)
            ELSE Ok
    ELSE ConclusionOfWrongForm(AssocPlaceholder("And"))

\* ConjunctionElimination looking at the first conjunct only
AndElimCheckFirstOnly(p, c, ds) ==
    IF ~HasLine(p, ds[1]) THEN LineDoesNotExist(ds[1])
    ELSE LET prem == LookupExpr(p, ds[1])
         IN IF IsAssocOf(prem, "And")
            THEN (IF c = prem.exprs[1] THEN Ok ELSE DoesNotOccur(c, prem))
            ELSE DepDoesNotExist(AssocPlaceholder("And"), TRUE)

AndElimCheck(p, c, ds) ==
    IF ~HasLine(p, ds[1]) THEN LineDoesNotExist(ds[1])
    ELSE LET prem == LookupExpr(p, ds[1])
         IN IF IsAssocOf(prem, "And")
            THEN (IF c \in Range(prem.exprs) THEN Ok ELSE DoesNotOccur(c, prem))
            ELSE DepDoesNotExist(AssocPlaceholder("And"), TRUE)

OrIntroCheck(p, c, ds) ==
    IF ~HasLine(p, ds[1]) THEN LineDoesNotExist(ds[1])
    ELSE LET prem == LookupExpr(p, ds[1])
         IN IF IsAssocOf(c, "Or")
            THEN (IF prem \notin Range(c.exprs) THEN DoesNotOccur(prem, c) ELSE Ok)
            ELSE ConclusionOfWrongForm(AssocPlaceholder("Or"))

\* the expressions of the lines of a subproof that name a rule
StepExprsJustified(p, sp) ==
    {LookupExpr(p, l.ref) :
        l \in {x \in Range(sp.lines) : /\ x.kind = "J"
                                        /\ HasStep(p, x.ref)
                                        /\ p.lines[x.ref].rule # <<"EmptyRule", "EmptyRule">>}}

\* the expressions of a subproof's lines that lookup_step finds
StepExprs(p, sp) ==
    {LookupExpr(p, l.ref) : l \in {x \in Range(sp.lines) : x.kind = "J" /\ HasStep(p, x.ref)}}

\* is e the subproof's first premise
FirstPremiseIs(p, sp, e) ==
    /\ Len(sp.premises) > 0
    /\ HasPremise(p, sp.premises[1])
    /\ LookupExpr(p, sp.premises[1]) = e

OrElimCheck(p, c, ds, sds) ==
    IF ~HasLine(p, ds[1]) THEN LineDoesNotExist(ds[1])
    ELSE LET prem == LookupExpr(p, ds[1])
             nosub == FirstIndex({i \in 1..Len(sds) : ~HasSubproof(p, sds[i])})
         IN IF ~IsAssocOf(prem, "Or") THEN DepDoesNotExist(AssocPlaceholder("Or"), TRUE)
            ELSE IF nosub # 0 THEN SubproofDoesNotExist(sds[nosub])
            ELSE LET sproofs == {LookupSubproof(p, sds[i]) : i \in 1..Len(sds)}
                     uncovered == FirstIndex({k \in 1..Len(prem.exprs) :
                                     ~\E sp \in sproofs : FirstPremiseIs(p, sp, prem.exprs[k])})
                 IN IF ~\A sp \in sproofs : c \in StepExprs(p, sp)
                    THEN DepDoesNotExist(c, FALSE)
                    ELSE IF uncovered # 0 THEN DepDoesNotExist(prem.exprs[uncovered], FALSE)
                    ELSE Ok

\* the first line of a subproof that lookup_expr_or_die fails on, or 0
FirstLostLine(p, sp) ==
    FirstIndex({k \in 1..Len(SubproofExprs(sp)) : ~HasLine(p, SubproofExprs(sp)[k].ref)})

\* the expressions of all the lines of a subproof that carry one
LineExprs(p, sp) == {LookupExpr(p, l.ref) : l \in Range(SubproofExprs(sp))}

\* the discharge without the search for `right` among the subproof's lines
DischargeCheckPremiseOnly(p, sp, left, right) ==
    IF ~HasPremise(p, sp.premises[1]) THEN LineDoesNotExist(sp.premises[1])
    ELSE LET prem == LookupExpr(p, sp.premises[1])
         IN IF left # prem THEN DoesNotOccur(left, prem) ELSE Ok

\* ImpIntro and NotIntro share their shape: the premise of the one subproof
\* must be `left`, and some line of it must be `right`.
DischargeCheck(p, sp, left, right) ==
    IF ~HasPremise(p, sp.premises[1]) THEN LineDoesNotExist(sp.premises[1])
    ELSE LET prem == LookupExpr(p, sp.premises[1])
             lost == FirstLostLine(p, sp)
         IN IF left # prem THEN DoesNotOccur(left, prem)
            ELSE IF lost # 0 THEN LineDoesNotExist(SubproofExprs(sp)[lost].ref)
            ELSE IF right \notin LineExprs(p, sp) THEN DepDoesNotExist(right, FALSE)
            ELSE Ok

ImpIntroCheck(p, c, sds) ==
    IF ~HasSubproof(p, sds[1]) THEN SubproofDoesNotExist(sds[1])
    ELSE LET sproof == LookupSubproof(p, sds[1])
         IN IF Len(sproof.premises) # 1 THEN Panic("assert_eq!(sproof.premises().len(), 1)")
            ELSE IF IsImpl(c) THEN DischargeCheck(p, sproof, c.left, c.right)
            ELSE ConclusionOfWrongForm(ImplPlaceHolder)

NotIntroCheck(p, c, sds) ==
    IF ~HasSubproof(p, sds[1]) THEN SubproofDoesNotExist(sds[1])
    ELSE LET sproof == LookupSubproof(p, sds[1])
         IN IF Len(sproof.premises) # 1 THEN Panic("assert_eq!(sproof.premises().len(), 1)")
            ELSE IF IsNot(c) THEN DischargeCheck(p, sproof, c.operand, Contra)
            ELSE ConclusionOfWrongForm(Not(Var("_")))

ImpElimCheckFunc(i, j, c) ==
    IF IsImpl(i)
    THEN IF i.left # j THEN AnyErr(DoesNotOccur(i, j))
         ELSE IF i.right # c THEN AnyErr(DoesNotOccur(c, i.right))
         ELSE AnyOk
    ELSE WrongOrder

ImpElimCheck(p, c, ds, resumes) ==
    IF ~HasLine(p, ds[1]) THEN LineDoesNotExist(ds[1])
    ELSE IF ~HasLine(p, ds[2]) THEN LineDoesNotExist(ds[2])
    ELSE LET prem1 == LookupExpr(p, ds[1])
             prem2 == LookupExpr(p, ds[2])
         IN EitherOrder(prem1, prem2,
                [q \in Orderings(<<prem1, prem2>>) |-> ImpElimCheckFunc(q[1], q[2], c)],
                DepDoesNotExist(ImplPlaceHolder, TRUE), resumes)

NotElimCheck(p, c, ds) ==
    IF ~HasLine(p, ds[1]) THEN LineDoesNotExist(ds[1])
    ELSE LET prem == LookupExpr(p, ds[1])
         IN IF IsNot(prem) /\ IsNot(prem.operand)
            THEN (IF prem.operand.operand = c THEN Ok
                  ELSE ConclusionOfWrongForm(Not(Not(Var("_")))))
            ELSE DepDoesNotExist(Not(Not(Var("_"))), TRUE)

ContradictionIntroCheck(p, c, ds, resumes) ==
    IF c # Contra THEN ConclusionOfWrongForm(Contra)
    ELSE IF ~HasLine(p, ds[1]) THEN LineDoesNotExist(ds[1])
    ELSE IF ~HasLine(p, ds[2]) THEN LineDoesNotExist(ds[2])
    ELSE DoExpressionsContradict(LookupExpr(p, ds[1]), LookupExpr(p, ds[2]), resumes)

ContradictionElimCheck(p, c, ds) ==
    IF ~HasLine(p, ds[1]) THEN LineDoesNotExist(ds[1])
    ELSE LET prem == LookupExpr(p, ds[1])
         IN IF prem = Contra THEN Ok ELSE DepOfWrongForm(prem, Contra)

\* the k-th element (from 0) of a set in some fixed enumeration of it
RECURSIVE PickFrom(_, _)
PickFrom(S, k) ==
    LET x == CHOOSE y \in S : TRUE
    IN IF k = 0 \/ S = {x} THEN x ELSE PickFrom(S \ {x}, k - 1)

\* the check_func of BiconditionalElimination that always expects a biconditional
BiconditionalElimCheckFuncKeepsAssoc(i, j, c, pick) ==
    IF IsAssocOf(i, "Bicon")
    THEN LET s == IF IsAssocOf(j, "Bicon") THEN Range(j.exprs) ELSE {j}
             absent == {x \in s : x \notin Range(i.exprs)}
             terms == SelectSeq(i.exprs, LAMBDA x : x \notin s)
             expected == Assoc("Bicon", terms)
         IN IF absent # {} THEN AnyErr(DoesNotOccur(PickFrom(absent, pick), i))
            ELSE IF c # expected THEN AnyErr(DoesNotOccur(c, expected))
            ELSE AnyOk
    ELSE WrongOrder

\* `s` is a HashSet and `for prem in s.iter()` visits it in an order the
\* program does not fix: of the elements missing in exprs, any one may be
\* the one reported (pick selects it).
BiconditionalElimCheckFunc(i, j, c, pick) ==
    IF IsAssocOf(i, "Bicon")
    THEN LET s == IF IsAssocOf(j, "Bicon") THEN Range(j.exprs) ELSE {j}
             absent == {x \in s : x \notin Range(i.exprs)}
             terms == SelectSeq(i.exprs, LAMBDA x : x \notin s)
             expected == IF Len(terms) = 1 THEN terms[1] ELSE Assoc("Bicon", terms)
         IN IF absent # {} THEN AnyErr(DoesNotOccur(PickFrom(absent, pick), i))
            ELSE IF c # expected THEN AnyErr(DoesNotOccur(c, expected))
            ELSE AnyOk
    ELSE WrongOrder

BiconditionalElimCheck(p, c, ds, resumes, pick) ==
    IF ~HasLine(p, ds[1]) THEN LineDoesNotExist(ds[1])
    ELSE IF ~HasLine(p, ds[2]) THEN LineDoesNotExist(ds[2])
    ELSE LET prem1 == LookupExpr(p, ds[1])
             prem2 == LookupExpr(p, ds[2])
         IN EitherOrder(prem1, prem2,
                [q \in Orderings(<<prem1, prem2>>) |->
                    BiconditionalElimCheckFunc(q[1], q[2], c, pick)],
                DepDoesNotExist(AssocPlaceholder("Bicon"), TRUE), resumes)

EquivalenceElimCheckFunc(i, j, c) ==
    IF IsAssocOf(i, "Equiv")
    THEN IF j \notin Range(i.exprs) THEN AnyErr(DoesNotOccur(j, i))
         ELSE IF c \notin Range(i.exprs) THEN AnyErr(DoesNotOccur(c, i))
         ELSE AnyOk
    ELSE WrongOrder

EquivalenceElimCheck(p, c, ds, resumes) ==
    IF ~HasLine(p, ds[1]) THEN LineDoesNotExist(ds[1])
    ELSE IF ~HasLine(p, ds[2]) THEN LineDoesNotExist(ds[2])
    ELSE LET prem1 == LookupExpr(p, ds[1])
             prem2 == LookupExpr(p, ds[2])
         IN EitherOrder(prem1, prem2,
                [q \in Orderings(<<prem1, prem2>>) |-> EquivalenceElimCheckFunc(q[1], q[2], c)],
                DepDoesNotExist(AssocPlaceholder("Equiv"), TRUE), resumes)

\* the nodes reachable from the set S along the edges E (S included)
RECURSIVE ReachableFrom(_, _)
ReachableFrom(S, E) ==
    LET T == S \cup {e[2] : e \in {x \in E : x[1] \in S}}
    IN IF T = S THEN S ELSE ReachableFrom(T, E)

\* the edges of the dependencies with an implication read in both directions
PremiseEdgesUndirected(prems, oper) ==
    UNION {IF IsImpl(x) THEN {<<x.left, x.right>>, <<x.right, x.left>>}
           ELSE {<<e1, e2>> : e1 \in Range(x.exprs), e2 \in Range(x.exprs)} : x \in Range(prems)}

\* the edges the dependencies put into the graph g
PremiseEdges(prems, oper) ==
    UNION {IF IsImpl(x) THEN {<<x.left, x.right>>}
           ELSE {<<e1, e2>> : e1 \in Range(x.exprs), e2 \in Range(x.exprs)} : x \in Range(prems)}

\* the edges the subproofs put into g: from the premise to every line
SubproofEdges(p, sproofs) ==
    UNION {{<<LookupExpr(p, sp.premises[1]), e>> : e \in LineExprs(p, sp)} : sp \in Range(sproofs)}

\* tarjan_scc(&g): is there a strongly connected component of the graph with
\* edges E that holds every element of `operands`
SomeSccHoldsAll(E, operands) ==
    LET nodes == {e[1] : e \in E} \cup {e[2] : e \in E}
    IN /\ nodes # {}
       /\ operands \subseteq nodes
       /\ \A e1, e2 \in operands : e2 \in ReachableFrom({e1}, E)

\* what the loop over the subproofs stops on at subproof sp, if anything
IntroSubproofStop(p, sp) ==
    IF Len(sp.premises) # 1 THEN Panic("assert_eq!(sproof.premises().len(), 1)")
    ELSE IF ~HasPremise(p, sp.premises[1]) THEN LineDoesNotExist(sp.premises[1])
    ELSE IF FirstLostLine(p, sp) # 0
         THEN LineDoesNotExist(SubproofExprs(sp)[FirstLostLine(p, sp)].ref)
    ELSE Ok

\* EquivalenceIntro | BiconditionalIntro.  The text of the Other error after
\* its first sentence (which operand is unreachable from which) is left out.
IntroCheck(v, p, c, ds, sds) ==
    LET oper == IF v = "EquivalenceIntro" THEN "Equiv" ELSE "Bicon"
        lost == FirstIndex({i \in 1..Len(ds) : ~HasLine(p, ds[i])})
        nosub == FirstIndex({i \in 1..Len(sds) : ~HasSubproof(p, sds[i])})
        prems == [i \in 1..Len(ds) |-> LookupExpr(p, ds[i])]
        sproofs == [i \in 1..Len(sds) |-> LookupSubproof(p, sds[i])]
        wrong == FirstIndex({i \in 1..Len(ds) :
                     ~(IsAssocOf(prems[i], oper) \/ IsImpl(prems[i]))})
        stop == FirstIndex({i \in 1..Len(sds) : IntroSubproofStop(p, sproofs[i]) # Ok})
    IN IF ~IsAssocOf(c, oper) THEN ConclusionOfWrongForm(AssocPlaceholder(oper))
       ELSE IF v = "BiconditionalIntro" /\ Len(c.exprs) # 2
            THEN ConclusionOfWrongForm(Assoc("Bicon", <<Var("_"), Var("_")>>))
       ELSE IF lost # 0 THEN LineDoesNotExist(ds[lost])
       ELSE IF nosub # 0 THEN SubproofDoesNotExist(sds[nosub])
       ELSE IF wrong # 0
            THEN OneOf({DepOfWrongForm(prems[wrong], AssocPlaceholder(oper)),
                        DepOfWrongForm(prems[wrong], ImplPlaceHolder)})
       ELSE IF stop # 0 THEN IntroSubproofStop(p, sproofs[stop])
       ELSE IF SomeSccHoldsAll(PremiseEdges(prems, oper) \cup SubproofEdges(p, sproofs),
                               Range(c.exprs))
            THEN Ok
       ELSE Other("Not all elements of the conclusion are mutually implied by the premises.",
                  <<>>)

PrepositionalInferenceCheck(v, p, c, ds, sds, env) ==
    CASE v = "Reit" -> ReitCheck(p, c, ds)
      [] v = "AndIntro" -> AndIntroCheck(p, c, ds)
      [] v = "AndElim" -> AndElimCheck(p, c, ds)
      [] v = "OrIntro" -> OrIntroCheck(p, c, ds)
      [] v = "OrElim" -> OrElimCheck(p, c, ds, sds)
      [] v = "ImpIntro" -> ImpIntroCheck(p, c, sds)
      [] v = "ImpElim" -> ImpElimCheck(p, c, ds, env.resumes)
      [] v = "NotIntro" -> NotIntroCheck(p, c, sds)
      [] v = "NotElim" -> NotElimCheck(p, c, ds)
      [] v = "ContradictionIntro" -> ContradictionIntroCheck(p, c, ds, env.resumes)
      [] v = "ContradictionElim" -> ContradictionElimCheck(p, c, ds)
      [] v = "BiconditionalElim" -> BiconditionalElimCheck(p, c, ds, env.resumes, env.pick)
      [] v \in {"EquivalenceIntro", "BiconditionalIntro"} -> IntroCheck(v, p, c, ds, sds)
      [] v = "EquivalenceElim" -> EquivalenceElimCheck(p, c, ds, env.resumes)

-----------------------------------------------------------------------------
(* PredicateInference::check.  Unification, substitution and free variables *)
(* (crate::expr) are given on the expressions the rules meet here: atoms,   *)
(* applications of a predicate to variables, and quantifiers over them.     *)

Apply(f, args) == [tag |-> "Apply", func |-> Var(f), args |-> args]
Quant(kind, name, body) == [tag |-> "Quant", kind |-> kind, name |-> name, body |-> body]

\* Expr::quant_placeholder(kind)
QuantPlaceholder(kind) == [tag |-> "Quant", kind |-> kind, name |-> "_", body |-> Var("_")]
IsQuantOf(e, kind) == e.tag = "Quant" /\ e.kind = kind

\* crate::expr::free_vars
RECURSIVE FreeVars(_)
FreeVars(e) ==
    CASE e.tag = "Var" -> {e.name}
      [] e.tag = "Apply" -> UNION {FreeVars(e.args[i]) : i \in 1..Len(e.args)}
      [] e.tag = "Quant" -> FreeVars(e.body) \ {e.name}
      [] e.tag = "Not" -> FreeVars(e.operand)
      [] e.tag = "Impl" -> FreeVars(e.left) \cup FreeVars(e.right)
      [] e.tag = "Assoc" -> UNION {FreeVars(e.exprs[i]) : i \in 1..Len(e.exprs)}
      [] OTHER -> {}

\* crate::expr::subst(e, x, t); no bound variable of these expressions can
\* capture a variable of t, so none is renamed
RECURSIVE Subst(_, _, _)
Subst(e, x, t) ==
    CASE e.tag = "Var" -> IF e.name = x THEN t ELSE e
      [] e.tag = "Apply" -> [e EXCEPT !.args = [i \in 1..Len(e.args) |-> Subst(e.args[i], x, t)]]
      [] e.tag = "Quant" -> IF e.name = x THEN e ELSE [e EXCEPT !.body = Subst(e.body, x, t)]
      [] e.tag = "Not" -> [e EXCEPT !.operand = Subst(e.operand, x, t)]
      [] e.tag = "Impl" -> [e EXCEPT !.left = Subst(e.left, x, t), !.right = Subst(e.right, x, t)]
      [] e.tag = "Assoc" -> [e EXCEPT !.exprs = [i \in 1..Len(e.exprs) |-> Subst(e.exprs[i], x, t)]]
      [] OTHER -> e

\* a term under the bindings made so far, applied in their order
RECURSIVE Resolve(_, _)
Resolve(sub, t) ==
    IF sub = <<>> THEN t ELSE Resolve(Tail(sub), Subst(t, sub[1][1], sub[1][2]))

\* the constraints ls[i] = rs[i] between variables, solved from the left: the
\* variable on the left is bound
RECURSIVE UnifyTerms(_, _, _)
UnifyTerms(ls, rs, sub) ==
    IF ls = <<>> THEN Some(sub)
    ELSE LET l == Resolve(sub, ls[1])
             r == Resolve(sub, rs[1])
         IN IF l = r THEN UnifyTerms(Tail(ls), Tail(rs), sub)
            ELSE UnifyTerms(Tail(ls), Tail(rs), Append(sub, <<l.name, r>>))

\* crate::expr::unify of the one constraint e1 = e2: the substitution as the
\* list of its bindings, or None
Unify(e1, e2) ==
    IF e1 = e2 THEN Some(<<>>)
    ELSE IF e1.tag = "Var"
         THEN (IF e1.name \in FreeVars(e2) THEN None ELSE Some(<< <<e1.name, e2>> >>))
    ELSE IF e2.tag = "Var"
         THEN (IF e2.name \in FreeVars(e1) THEN None ELSE Some(<< <<e2.name, e1>> >>))
    ELSE IF e1.tag = "Apply" /\ e2.tag = "Apply" /\ Len(e1.args) = Len(e2.args)
         THEN UnifyTerms(<<e1.func>> \o e1.args, <<e2.func>> \o e2.args, <<>>)
    ELSE None

\* unifies_wrt_var: [ok |-> TRUE, val |-> the term var stands for], or the error
UnifiesWrtVar(e1, e2, var) ==
    LET substitutions == Unify(e1, e2)
    IN IF ~substitutions.some
       THEN [ok |-> FALSE, err |-> Other("No substitution found between {} and {}.", <<e1, e2>>)]
       ELSE IF Len(substitutions.val) = 0 THEN [ok |-> TRUE, val |-> Var(var)]
       ELSE IF Len(substitutions.val) = 1
            THEN (IF substitutions.val[1][1] = var
                  THEN [ok |-> TRUE, val |-> substitutions.val[1][2]]
                  ELSE [ok |-> FALSE,
                        err |-> Other("Attempted to substitute for a variable other than the binder: {}",
                                      <<Var(substitutions.val[1][1])>>)])
       ELSE [ok |-> FALSE,
             err |-> Other("More than one variable was substituted: {:?}", <<>>)]

\* does e unify with body to a variable: `if let Ok(Expr::Var { .. })`
UnifiesToVar(body, e, name) ==
    UnifiesWrtVar(body, e, name).ok /\ UnifiesWrtVar(body, e, name).val.tag = "Var"

\* Proof::transitive_dependencies(line): what is reached along Justification.deps,
\* the lines a step cites
TransitiveDependencies(p, line) ==
    LET directDeps(r) ==
            IF HasStep(p, r) /\ "deps" \in DOMAIN p.lines[r] THEN p.lines[r].deps ELSE {}
    IN ReachableFrom({line}, UNION {{<<l, d>> : d \in directDeps(l)} : l \in 1..Len(p.lines)})

\* Proof::contained_justifications(true): every line inside the subproof
RECURSIVE ContainedJustifications(_, _)
ContainedJustifications(p, sp) ==
    Range(sp.premises)
    \cup {l.ref : l \in {x \in Range(sp.lines) : x.kind = "J"}}
    \cup UNION {ContainedJustifications(p, LookupSubproof(p, l.ref)) :
                    l \in {x \in Range(sp.lines) : x.kind = "S" /\ HasSubproof(p, x.ref)}}

\* generalizable_variable_counterexample: the expressions with var free among
\* the transitive dependencies of line outside the subproof; find() returns
\* whichever of them the HashSet yields first
GeneralizableVariableCounterexamples(p, sproof, line, var) ==
    LET contained == ContainedJustifications(p, sproof)
        reachable == TransitiveDependencies(p, line)
        outside == reachable \ contained
    IN {e \in {LookupExpr(p, x) : x \in {y \in outside : HasLine(p, y)}} : var \in FreeVars(e)}

\* ForallIntro: the first line of the subproof that unifies with the body to
\* a variable decides; the loop returns there, with Ok or with an error
ForallIntroCheck(p, c, sds, pick) ==
    IF ~HasSubproof(p, sds[1]) THEN SubproofDoesNotExist(sds[1])
    ELSE IF ~IsQuantOf(c, "Forall") THEN ConclusionOfWrongForm(QuantPlaceholder("Forall"))
    ELSE LET sproof == LookupSubproof(p, sds[1])
             exprs == SubproofExprs(sproof)
             lost == FirstLostLine(p, sproof)
             first == FirstIndex({k \in 1..Len(exprs) :
                          HasLine(p, exprs[k].ref)
                              /\ UnifiesToVar(c.body, LookupExpr(p, exprs[k].ref), c.name)})
         IN IF lost # 0 THEN LineDoesNotExist(exprs[lost].ref)
            ELSE IF first = 0
                 THEN Other("Couldn't find a subproof line that unifies with the conclusion ({}).",
                            <<c>>)
            ELSE LET r == exprs[first].ref
                     constant == UnifiesWrtVar(c.body, LookupExpr(p, r), c.name).val.name
                     dangling == GeneralizableVariableCounterexamples(p, sproof, r, constant)
                     expected == Subst(c.body, constant, Var(c.name))
                     tdeps == TransitiveDependencies(p, r)
                 IN IF dangling # {}
                    THEN Other("The constant {} occurs in dependency {} that's outside the subproof.",
                               <<Var(constant), PickFrom(dangling, pick)>>)
                    ELSE IF expected # c.body
                         THEN Other("Not all free occurrences of {} are replaced with {} in {}.",
                                    <<Var(constant), Var(c.name), c.body>>)
                    ELSE IF \E k \in 1..Len(sproof.premises) : sproof.premises[k] \in tdeps
                         THEN Other("ForallIntro should not make use of the subproof's premises.",
                                    <<>>)
                    ELSE Ok

ForallElimCheck(p, c, ds) ==
    IF ~HasLine(p, ds[1]) THEN LineDoesNotExist(ds[1])
    ELSE LET prem == LookupExpr(p, ds[1])
         IN IF ~IsQuantOf(prem, "Forall")
            THEN DepOfWrongForm(prem, QuantPlaceholder("Forall"))
            ELSE IF UnifiesWrtVar(prem.body, c, prem.name).ok THEN Ok
            ELSE UnifiesWrtVar(prem.body, c, prem.name).err

ExistsIntroCheck(p, c, ds) ==
    IF ~IsQuantOf(c, "Exists") THEN ConclusionOfWrongForm(QuantPlaceholder("Exists"))
    ELSE IF ~HasLine(p, ds[1]) THEN LineDoesNotExist(ds[1])
    ELSE IF UnifiesWrtVar(c.body, LookupExpr(p, ds[1]), c.name).ok THEN Ok
    ELSE UnifiesWrtVar(c.body, LookupExpr(p, ds[1]), c.name).err

\* ExistsElim at a line, without the check that the skolem constant stays
\* out of the conclusion
ExistsElimAtLineNoEscapeCheck(p, c, sproof, r, skolemname, pick) ==
    LET dangling == GeneralizableVariableCounterexamples(p, sproof, r, skolemname)
    IN IF dangling # {}
       THEN Other("The skolem constant {} occurs in dependency {} that's outside the subproof.",
                  <<Var(skolemname), PickFrom(dangling, pick)>>)
       ELSE Ok

\* what ExistsElim does at the first line of the subproof equal to the conclusion
ExistsElimAtLine(p, c, sproof, r, skolemname, pick) ==
    LET dangling == GeneralizableVariableCounterexamples(p, sproof, r, skolemname)
    IN IF dangling # {}
       THEN Other("The skolem constant {} occurs in dependency {} that's outside the subproof.",
                  <<Var(skolemname), PickFrom(dangling, pick)>>)
       ELSE IF skolemname \in FreeVars(c)
            THEN Other("The skolem constant {} escapes to the conclusion {}.",
                       <<Var(skolemname), c>>)
       ELSE Ok

ExistsElimCheck(p, c, ds, sds, pick) ==
    IF ~HasLine(p, ds[1]) THEN LineDoesNotExist(ds[1])
    ELSE IF ~HasSubproof(p, sds[1]) THEN SubproofDoesNotExist(sds[1])
    ELSE LET prem == LookupExpr(p, ds[1])
             sproof == LookupSubproof(p, sds[1])
             subprems == sproof.premises
             exprs == SubproofExprs(sproof)
             lost == FirstLostLine(p, sproof)
             first == FirstIndex({k \in 1..Len(exprs) :
                          HasLine(p, exprs[k].ref) /\ LookupExpr(p, exprs[k].ref) = c})
         IN IF ~IsQuantOf(prem, "Exists")
            THEN DepOfWrongForm(prem, QuantPlaceholder("Exists"))
            ELSE IF Len(subprems) # 1
                 THEN Other("Subproof has {} premises, expected 1.", <<Len(subprems)>>)
            ELSE IF ~HasPremise(p, subprems[1]) THEN LineDoesNotExist(subprems[1])
            ELSE IF ~UnifiesToVar(prem.body, LookupExpr(p, subprems[1]), prem.name)
                 THEN Other("Premise {} doesn't unify with the body of dependency {}",
                            <<LookupExpr(p, subprems[1]), prem>>)
            ELSE IF lost # 0 THEN LineDoesNotExist(exprs[lost].ref)
            ELSE IF first = 0
                 THEN Other("Couldn't find a subproof line equal to the conclusion ({}).", <<c>>)
            ELSE ExistsElimAtLine(p, c, sproof, exprs[first].ref,
                     UnifiesWrtVar(prem.body, LookupExpr(p, subprems[1]), prem.name).val.name,
                     pick)

PredicateInferenceCheck(v, p, c, ds, sds, pick) ==
    CASE v = "ForallIntro" -> ForallIntroCheck(p, c, sds, pick)
      [] v = "ForallElim" -> ForallElimCheck(p, c, ds)
      [] v = "ExistsIntro" -> ExistsIntroCheck(p, c, ds)
      [] v = "ExistsElim" -> ExistsElimCheck(p, c, ds, sds, pick)

-----------------------------------------------------------------------------
(* The equivalence rules.  The normalizers and rewrite rules they compare   *)
(* with are outside rules.rs.  A normalizer (normalize_fn, rule.reduce) and *)
(* sort_commutative_ops are total functions on expressions and are handed   *)
(* over as tables, env.norm and env.sort; whether the two reduce_sets of a  *)
(* non-confluent rule meet is the input env.eq.                             *)

\* the tables of a call of which only the comparison's outcome eq is known:
\* with eq every expression has the same normal form, without it each
\* expression is its own
NormalFormTable(p, c, eq) ==
    [e \in {c, Contra} \cup {p.lines[i].expr : i \in 1..Len(p.lines)} |->
        IF eq THEN Contra ELSE e]

\* a comparison that normalizes the premise only
CheckByNormalizeFirstExprPremiseOnly(p, ds, c, commutative, normalize_fn, sort_commutative_ops) ==
    IF ~HasLine(p, ds[1]) THEN LineDoesNotExist(ds[1])
    ELSE LET np == normalize_fn[LookupExpr(p, ds[1])]
         IN IF (IF commutative THEN sort_commutative_ops[np] ELSE np) = c THEN Ok
            ELSE Other("{} and {} are not equal.", <<>>)

\* the normal forms the message quotes are left out
CheckByNormalizeFirstExpr(p, ds, c, commutative, normalize_fn, sort_commutative_ops) ==
    IF ~HasLine(p, ds[1]) THEN LineDoesNotExist(ds[1])
    ELSE LET np == normalize_fn[LookupExpr(p, ds[1])]
             nq == normalize_fn[c]
         IN IF (IF commutative THEN sort_commutative_ops[np] ELSE np)
                  = (IF commutative THEN sort_commutative_ops[nq] ELSE nq)
            THEN Ok
            ELSE Other("{} and {} are not equal.", <<>>)

\* the closure |e| rule.reduce(e) is the table reduce
CheckByRewriteRuleConfl(p, ds, c, commutative, reduce, sort_commutative_ops) ==
    CheckByNormalizeFirstExpr(p, ds, c, commutative, reduce, sort_commutative_ops)

CheckByRewriteRuleNonConfl(p, ds, c, eq) ==
    IF ~HasLine(p, ds[1]) THEN LineDoesNotExist(ds[1])
    ELSE IF eq THEN Ok
    ELSE Other("{} and {} are not equal.", <<LookupExpr(p, ds[1]), c>>)

BooleanEquivalenceCheck(v, p, c, ds, env) ==
    CASE v \in {"DeMorgan", "Association", "Commutation", "Idempotence"} ->
           CheckByNormalizeFirstExpr(p, ds, c, FALSE, env.norm, env.sort)
      [] v = "Reduction" -> CheckByRewriteRuleNonConfl(p, ds, c, env.eq)
      [] OTHER -> CheckByRewriteRuleConfl(p, ds, c, v = "Distribution", env.norm, env.sort)

-----------------------------------------------------------------------------
(* RedundantPrepositionalInference::check *)

ModusTollensCheckFunc(dep_0, dep_1, c) ==
    IF IsImpl(dep_0)
    THEN LET not_p == Not(dep_0.left)
             not_q == Not(dep_0.right)
         IN IF not_q # dep_1 THEN AnyErr(DoesNotOccur(not_q, dep_1))
            ELSE IF not_p # c THEN AnyErr(DoesNotOccur(not_p, c))
            ELSE AnyOk
    ELSE WrongOrder

ModusTollensCheck(p, c, ds, resumes) ==
    IF ~HasLine(p, ds[1]) THEN LineDoesNotExist(ds[1])
    ELSE IF ~HasLine(p, ds[2]) THEN LineDoesNotExist(ds[2])
    ELSE LET dep_0 == LookupExpr(p, ds[1])
             dep_1 == LookupExpr(p, ds[2])
         IN EitherOrder(dep_0, dep_1,
                [q \in Orderings(<<dep_0, dep_1>>) |-> ModusTollensCheckFunc(q[1], q[2], c)],
                DepDoesNotExist(ImplPlaceHolder, TRUE), resumes)

HypotheticalSyllogismCheckFunc(dep_0, dep_1, c) ==
    IF IsImpl(dep_0) /\ IsImpl(dep_1) /\ IsImpl(c)
    THEN IF dep_0.left # c.left THEN AnyErr(DoesNotOccur(dep_0.left, c.left))
         ELSE IF dep_0.right # dep_1.left THEN AnyErr(DoesNotOccur(dep_0.right, dep_1.left))
         ELSE IF dep_1.right # c.right THEN AnyErr(DoesNotOccur(dep_1.right, c.right))
         ELSE AnyOk
    ELSE WrongOrder

HypotheticalSyllogismCheck(p, c, ds, resumes) ==
    IF ~HasLine(p, ds[1]) THEN LineDoesNotExist(ds[1])
    ELSE IF ~HasLine(p, ds[2]) THEN LineDoesNotExist(ds[2])
    ELSE LET dep_0 == LookupExpr(p, ds[1])
             dep_1 == LookupExpr(p, ds[2])
         IN EitherOrder(dep_0, dep_1,
                [q \in Orderings(<<dep_0, dep_1>>) |->
                    HypotheticalSyllogismCheckFunc(q[1], q[2], c)],
                DepDoesNotExist(ImplPlaceHolder, TRUE), resumes)

\* ExcludedMiddle accepting the negation on either side
ExcludedMiddleCheckEitherSide(c) ==
    LET wrong_form_err == ConclusionOfWrongForm(Or2(Var("_"), Not(Var("_"))))
    IN IF ~IsAssocOf(c, "Or") THEN wrong_form_err
       ELSE IF Len(c.exprs) # 2 THEN wrong_form_err
       ELSE IF c.exprs[2] = Not(c.exprs[1]) \/ c.exprs[1] = Not(c.exprs[2]) THEN Ok
       ELSE DoesNotOccur(c.exprs[2], Not(c.exprs[1]))

ExcludedMiddleCheck(c) ==
    LET wrong_form_err == ConclusionOfWrongForm(Or2(Var("_"), Not(Var("_"))))
    IN IF ~IsAssocOf(c, "Or") THEN wrong_form_err
       ELSE IF Len(c.exprs) # 2 THEN wrong_form_err
       ELSE IF c.exprs[2] = Not(c.exprs[1]) THEN Ok
       ELSE DoesNotOccur(c.exprs[2], Not(c.exprs[1]))

ConstructiveDilemmaCheckFunc(dep_0, dep_1, dep_2, c) ==
    IF IsImpl(dep_0) /\ IsImpl(dep_1) /\ IsAssocOf(dep_2, "Or") /\ IsAssocOf(c, "Or")
    THEN LET p_0 == dep_0.left
             q_0 == dep_0.right
             r_0 == dep_1.left
             s_0 == dep_1.right
         IN IF Len(dep_2.exprs) # 2 THEN AnyErr(DoesNotOccur(Or2(p_0, r_0), dep_2))
            ELSE IF Len(c.exprs) # 2 THEN AnyErr(DoesNotOccur(Or2(q_0, s_0), c))
            ELSE IF p_0 # dep_2.exprs[1] THEN AnyErr(DoesNotOccur(p_0, dep_2.exprs[1]))
            ELSE IF q_0 # c.exprs[1] THEN AnyErr(DoesNotOccur(q_0, c.exprs[1]))
            ELSE IF r_0 # dep_2.exprs[2] THEN AnyErr(DoesNotOccur(r_0, dep_2.exprs[2]))
            ELSE IF s_0 # c.exprs[2] THEN AnyErr(DoesNotOccur(s_0, c.exprs[2]))
            ELSE AnyOk
    ELSE WrongOrder

ConstructiveDilemmaCheck(p, c, ds, resumes) ==
    LET lost == FirstIndex({i \in 1..Len(ds) : ~HasLine(p, ds[i])})
        es == [i \in 1..Len(ds) |-> LookupExpr(p, ds[i])]
    IN IF lost # 0 THEN LineDoesNotExist(ds[lost])
       ELSE AnyOrder(es,
                [q \in Orderings(es) |-> ConstructiveDilemmaCheckFunc(q[1], q[2], q[3], c)],
                OneOf({DepDoesNotExist(ImplPlaceHolder, TRUE),
                       DepDoesNotExist(AssocPlaceholder("Or"), TRUE)}),
                resumes)

RedundantPrepositionalInferenceCheck(v, p, c, ds, sds, env) ==
    IF sds # <<>> THEN Panic("assert!(sdeps.is_empty())")
    ELSE CASE v = "ModusTollens" -> ModusTollensCheck(p, c, ds, env.resumes)
           [] v = "HypotheticalSyllogism" -> HypotheticalSyllogismCheck(p, c, ds, env.resumes)
           [] v = "ExcludedMiddle" -> ExcludedMiddleCheck(c)
           [] v = "ConstructiveDilemma" -> ConstructiveDilemmaCheck(p, c, ds, env.resumes)

-----------------------------------------------------------------------------
(* AutomationRelatedRules::check *)

\* Expr::disjuncts
Disjuncts(e) == IF IsAssocOf(e, "Or") THEN Range(e.exprs) ELSE {e}

\* Resolution taking the conclusion's disjuncts out of the first dependency only
ResolutionCheckFirstOnly(p, c, ds, resumes, pick) ==
    IF ~HasLine(p, ds[1]) THEN LineDoesNotExist(ds[1])
    ELSE IF ~HasLine(p, ds[2]) THEN LineDoesNotExist(ds[2])
    ELSE LET remainder == (Disjuncts(LookupExpr(p, ds[1])) \ Disjuncts(c))
                              \cup Disjuncts(LookupExpr(p, ds[2]))
             e1 == PickFrom(remainder, pick)
             e2 == CHOOSE e \in remainder : e # e1
         IN IF Cardinality(remainder) = 2
            THEN DoExpressionsContradict(e1, e2, resumes)
            ELSE Other("Difference between premise disjuncts and conclusion disjuncts ({}) should be exactly 2 expressions that produce a contradiction.",
                       <<>>)

\* remainder.sort() orders by Expr's derived Ord, which expr.rs holds: which
\* of two expressions comes first is the input `pick`
ResolutionCheck(p, c, ds, resumes, pick) ==
    IF ~HasLine(p, ds[1]) THEN LineDoesNotExist(ds[1])
    ELSE IF ~HasLine(p, ds[2]) THEN LineDoesNotExist(ds[2])
    ELSE LET premise_disjuncts ==
                 Disjuncts(LookupExpr(p, ds[1])) \cup Disjuncts(LookupExpr(p, ds[2]))
             remainder == premise_disjuncts \ Disjuncts(c)
             e1 == PickFrom(remainder, pick)
             e2 == CHOOSE e \in remainder : e # e1
         IN IF Cardinality(remainder) = 2
            THEN DoExpressionsContradict(e1, e2, resumes)
            ELSE Other("Difference between premise disjuncts and conclusion disjuncts ({}) should be exactly 2 expressions that produce a contradiction.",
                       <<>>)

\* the truth value of a propositional expression under the assignment v
RECURSIVE Eval(_, _)
Eval(e, v) ==
    CASE e.tag = "Var" -> v[e.name]
      [] e.tag = "Contra" -> FALSE
      [] e.tag = "Not" -> ~Eval(e.operand, v)
      [] e.tag = "Impl" -> Eval(e.left, v) => Eval(e.right, v)
      [] e.tag = "Assoc" ->
           (CASE e.op = "And" -> \A i \in 1..Len(e.exprs) : Eval(e.exprs[i], v)
              [] e.op = "Or" -> \E i \in 1..Len(e.exprs) : Eval(e.exprs[i], v)
              [] OTHER -> \A i, j \in 1..Len(e.exprs) :
                              Eval(e.exprs[i], v) = Eval(e.exprs[j], v))

\* the formula handed to the solver: ~((/\ deps) -> conclusion)
SatFormula(p, c, ds) ==
    Not(Impl(Assoc("And", [i \in 1..Len(ds) |-> LookupExpr(p, ds[i])]), c))

\* solver.model(): the assignments to the formula's variables that satisfy it
Models(e) == {v \in [FreeVars(e) -> BOOLEAN] : Eval(e, v)}

\* TautologicalConsequence with the dependencies joined by `or`
TautologicalConsequenceCheckAnyPremise(p, c, ds, pick) ==
    LET lost == FirstIndex({i \in 1..Len(ds) : ~HasLine(p, ds[i])})
        sat == Not(Impl(Assoc("Or", [i \in 1..Len(ds) |-> LookupExpr(p, ds[i])]), c))
    IN IF lost # 0 THEN LineDoesNotExist(ds[lost])
       ELSE IF Models(sat) # {}
            THEN Other("Not true by tautological consequence; Counterexample: {}",
                       <<PickFrom(Models(sat), pick)>>)
       ELSE Ok

\* ~(premise -> conclusion) is handed to the solver; a model it finds is the
\* counterexample the message quotes, and which model it finds is the input
\* `pick`.  The conversion to CNF does not fail on propositional expressions.
TautologicalConsequenceCheck(p, c, ds, pick) ==
    LET lost == FirstIndex({i \in 1..Len(ds) : ~HasLine(p, ds[i])})
        sat == SatFormula(p, c, ds)
    IN IF lost # 0 THEN LineDoesNotExist(ds[lost])
       ELSE IF Models(sat) # {}
            THEN Other("Not true by tautological consequence; Counterexample: {}",
                       <<PickFrom(Models(sat), pick)>>)
       ELSE Ok

AutomationRelatedRulesCheck(v, p, c, ds, env) ==
    CASE v = "AsymmetricTautology" -> Panic("unimplemented!()")
      [] v = "Resolution" -> ResolutionCheck(p, c, ds, env.resumes, env.pick)
      [] v = "TautologicalConsequence" -> TautologicalConsequenceCheck(p, c, ds, env.pick)

\* an Empty Rule that accepts
EmptyRuleAccepts == Ok

\* EmptyRule::check
EmptyRuleCheck == Other("No rule selected", <<>>)

-----------------------------------------------------------------------------
(* Rule::check: the Coproduct dispatches on the family; SharedChecks runs  *)
(* the arity checks first.  env holds what the call's outcome depends on    *)
(* besides its arguments: resumes, pick, eq, norm and sort.                 *)

CoproductCheck(r, p, c, ds, sds, env) ==
    CASE Family(r) = "PrepositionalInference" ->
           PrepositionalInferenceCheck(Variant(r), p, c, ds, sds, env)
      [] Family(r) = "PredicateInference" ->
           PredicateInferenceCheck(Variant(r), p, c, ds, sds, env.pick)
      [] Family(r) = "BooleanEquivalence" -> BooleanEquivalenceCheck(Variant(r), p, c, ds, env)
      [] Family(r) = "ConditionalEquivalence" ->
           CheckByRewriteRuleConfl(p, ds, c,
               Variant(r) \in {"ConditionalDistribution", "ConditionalReduction",
                               "KnightsAndKnaves", "ConditionalIdempotence",
                               "BiconditionalNegation", "BiconditionalSubstitution"},
               env.norm, env.sort)
      [] Family(r) = "QuantifierEquivalence" ->
           CheckByNormalizeFirstExpr(p, ds, c, FALSE, env.norm, env.sort)
      [] Family(r) = "RedundantPrepositionalInference" ->
           RedundantPrepositionalInferenceCheck(Variant(r), p, c, ds, sds, env)
      [] Family(r) = "AutomationRelatedRules" ->
           AutomationRelatedRulesCheck(Variant(r), p, c, ds, env)
      [] Family(r) = "EmptyRule" -> EmptyRuleCheck

\* SharedChecks::check with the two arity checks in the other order
SharedChecksSubFirst(r, p, c, ds, sds, env) ==
    IF NumSubdeps(r).some /\ Len(sds) # NumSubdeps(r).val
    THEN [ret |-> IncorrectSubDepCount(sds, NumSubdeps(r).val), inner |-> FALSE]
    ELSE IF NumDeps(r).some /\ Len(ds) # NumDeps(r).val
    THEN [ret |-> IncorrectDepCount(ds, NumDeps(r).val), inner |-> FALSE]
    ELSE [ret |-> CoproductCheck(r, p, c, ds, sds, env), inner |-> TRUE]

\* SharedChecks::check reporting the provided count of subproofs as the expected one
SharedChecksSubCountProvided(r, p, c, ds, sds, env) ==
    IF NumDeps(r).some /\ Len(ds) # NumDeps(r).val
    THEN [ret |-> IncorrectDepCount(ds, NumDeps(r).val), inner |-> FALSE]
    ELSE IF NumSubdeps(r).some /\ Len(sds) # NumSubdeps(r).val
    THEN [ret |-> IncorrectSubDepCount(sds, Len(sds)), inner |-> FALSE]
    ELSE [ret |-> CoproductCheck(r, p, c, ds, sds, env), inner |-> TRUE]

\* SharedChecks::check.  `inner` tells whether self.0.check was called.
SharedChecksCheck(r, p, c, ds, sds, env) ==
    IF NumDeps(r).some /\ Len(ds) # NumDeps(r).val
    THEN [ret |-> IncorrectDepCount(ds, NumDeps(r).val), inner |-> FALSE]
    ELSE IF NumSubdeps(r).some /\ Len(sds) # NumSubdeps(r).val
    THEN [ret |-> IncorrectSubDepCount(sds, NumSubdeps(r).val), inner |-> FALSE]
    ELSE [ret |-> CoproductCheck(r, p, c, ds, sds, env), inner |-> TRUE]

-----------------------------------------------------------------------------
(* The state machine.  A call of check is one step: the arguments are      *)
(* fixed when the call is made (pc = "call"), the step computes the value   *)
(* returned (pc = "done").                                                  *)

NoResult == [tag |-> "NoResult"]
NoTable == [deps |-> <<>>, check_func |-> <<>>]

\* the values `pick` can take in the call about to be made: one for each
\* model the solver can find, the two orders of a pair for the rules whose
\* check iterates a HashSet or sorts expressions
PickChoices ==
    IF rule = RuleOf("TautologicalConsequence")
    THEN (IF \A i \in 1..Len(deps) : HasLine(proof, deps[i])
          THEN {0} \cup (0..(Cardinality(Models(SatFormula(proof, conclusion, deps))) - 1))
          ELSE {0})
    ELSE IF rule \in {RuleOf("BiconditionalElim"), RuleOf("Resolution"), RuleOf("ForallIntro"),
                     RuleOf("ExistsElim")}
         THEN {0, 1} ELSE {0}

\* all sequences over S of length at most n
SeqsUpTo(S, n) == UNION {[1..k -> S] : k \in 0..n}

\* App::create
NewApp == [tabcontainer_link |-> None, menuwidget_link |-> None, proofs |-> <<>>]

\* the web-app and the parser at rest
WebIdle ==
    /\ nextId = 0
    /\ ids = <<>>
    /\ tokens = <<>>
    /\ added = <<>>
    /\ app = NewApp
    /\ handled = <<>>
    /\ outbox = <<>>

\* a call rule.check(pr, c, ds, sds) about to be made on the snapshot pr
CallOn(pr, r, c, ds, sds) ==
    /\ pc = "call"
    /\ proof = pr
    /\ rule = r
    /\ conclusion = c
    /\ deps = ds
    /\ sdeps = sds
    /\ iterResumes = FALSE
    /\ hashPick = 0
    /\ normEqual = FALSE
    /\ normalizer = <<>>
    /\ table = NoTable
    /\ wire = ""
    /\ inner = FALSE
    /\ result = NoResult
    /\ WebIdle

\* Rule::check(self, p, expr, deps, sdeps); `res` matters to the rules whose
\* check goes through any_order
Check ==
    /\ pc = "call"
    /\ \E res \in (IF rule \in {RuleOf("ImpElim"), RuleOf("ContradictionIntro"),
                                RuleOf("BiconditionalElim"), RuleOf("EquivalenceElim"),
                                RuleOf("ModusTollens"), RuleOf("HypotheticalSyllogism"),
                                RuleOf("ConstructiveDilemma"), RuleOf("Resolution")}
                  THEN BOOLEAN ELSE {FALSE}),
          pick \in PickChoices,
          eq \in (IF Family(rule) \in EquivalenceFamilies THEN BOOLEAN ELSE {FALSE}) :
          LET out == SharedChecksCheck(rule, proof, conclusion, deps, sdeps,
                                       [resumes |-> res, pick |-> pick, eq |-> eq,
                                        norm |-> NormalFormTable(proof, conclusion, eq),
                                        sort |-> NormalFormTable(proof, conclusion, FALSE)])
          IN /\ result' = out.ret
             /\ inner' = out.inner
             /\ iterResumes' = res
             /\ hashPick' = pick
             /\ normEqual' = eq
    /\ pc' = "done"
    /\ UNCHANGED <<proof, rule, conclusion, deps, sdeps, normalizer, table, wire, webVars>>

(* Every rule of the catalog, called with dependency lists of every length: *)
(* the arity checks and the ways a call can end.                            *)

SpecArity ==
    /\ \E r \in Rules, c \in {Impl(A, B), Assoc("Bicon", <<A, B>>)},
          ds \in SeqsUpTo({1, StaleRef(PoolProof)}, MaxDeps),
          sds \in SeqsUpTo({1, 2, 3}, MaxSubDeps) : CallOn(PoolProof, r, c, ds, sds)
    /\ [][Check]_vars

(* The inference rules over lines, called with the number of dependencies  *)
(* they declare, on every choice of top-level premises.                     *)

InferRules ==
    {RuleOf("Reit"), RuleOf("AndIntro"), RuleOf("ImpElim"), RuleOf("ContradictionIntro"),
     RuleOf("BiconditionalElim"), RuleOf("EquivalenceElim"), RuleOf("ModusTollens"),
     RuleOf("HypotheticalSyllogism"), RuleOf("ConstructiveDilemma")}

SpecInfer ==
    /\ \E r \in InferRules,
          c \in {A, B, Not(A), Contra, Impl(A, A), Impl(A, B), Or2(A, B), Or2(B, A),
                 Assoc("And", <<A, B>>), Assoc("And", <<B, A>>)} :
          \E ds \in (IF NumDeps(r).some
                     THEN [1..NumDeps(r).val -> (1..9) \cup {StaleRef(PoolProof)}]
                     ELSE SeqsUpTo({1, 2, 3, StaleRef(PoolProof)}, MaxConjuncts)) :
              CallOn(PoolProof, r, c, ds, <<>>)
    /\ [][Check]_vars

(* The rules that eliminate a connective or discharge subproofs, called on *)
(* the second snapshot with the number of dependencies they declare and,    *)
(* where none is declared, with lists of every length.                      *)

IntroRules == {RuleOf("BiconditionalIntro"), RuleOf("EquivalenceIntro")}

NdConclusions(r) ==
    CASE r = RuleOf("AndElim") -> {A, B, C, Contra, Assoc("And", <<A, B>>)}
      [] r = RuleOf("OrElim") -> {A, C, Contra}
      [] r = RuleOf("ImpIntro") ->
           {Impl(A, B), Impl(A, C), Impl(B, A), Impl(A, A), Impl(C, C), Impl(B, B), Not(A)}
      [] r = RuleOf("NotIntro") -> {Not(A), Not(B), Not(C), A, Impl(A, Contra)}
      [] r = RuleOf("BiconditionalElim") ->
           {A, B, C, Assoc("Bicon", <<B, C>>), Assoc("Bicon", <<C, B>>),
            Assoc("Bicon", <<A, B>>), Assoc("Bicon", <<>>)}
      [] r \in IntroRules ->
           {Assoc("Bicon", <<A, B>>), Assoc("Bicon", <<A, B, C>>), Assoc("Bicon", <<C>>),
            Assoc("Equiv", <<A, B>>), Assoc("Equiv", <<A, B, C>>), Assoc("Equiv", <<C>>), A}

SpecNd ==
    /\ \E r \in {RuleOf("AndElim"), RuleOf("OrElim"), RuleOf("ImpIntro"), RuleOf("NotIntro"),
                 RuleOf("BiconditionalElim")} \cup IntroRules :
          \E c \in NdConclusions(r),
             ds \in (IF NumDeps(r).some
                     THEN [1..NumDeps(r).val -> (1..9) \cup {StaleRef(NdProof)}]
                     ELSE SeqsUpTo({4, 5, 8, 9, StaleRef(NdProof)}, MaxIntroDeps)),
             sds \in (IF NumSubdeps(r).some THEN [1..NumSubdeps(r).val -> 1..5]
                      ELSE IF r \in IntroRules THEN SeqsUpTo({1, 2, 3, 4}, MaxIntroSubs)
                      ELSE SeqsUpTo(1..5, MaxCases)) :
              CallOn(NdProof, r, c, ds, sds)
    /\ [][Check]_vars

(* The quantifier rules, called on a snapshot whose steps cite the lines   *)
(* they depend on.                                                          *)

StepBy(e, ds) == [kind |-> "step", expr |-> e, rule |-> <<"EmptyRule", "EmptyRule">>, deps |-> ds]

\* P(t) and R(t, u) on the variables x, a and b
At(f, names) == Apply(f, [i \in DOMAIN names |-> Var(names[i])])

\* Three top-level premises, of which P(a) mentions the constant a, and four
\* subproofs: two whose lines generalize (the line resting on P(a) first in
\* the one, second in the other), one that assumes P(a) for an existential,
\* one with two premises.
PredProof ==
    [lines |-> << Premise(Quant("Exists", "x", At("P", <<"x">>))), Premise(At("P", <<"a">>)), Premise(Quant("Forall", "x", At("P", <<"x">>))),
                  Premise(A), StepBy(At("P", <<"a">>), {2}), StepBy(At("P", <<"b">>), {}), StepBy(At("R", <<"b", "b">>), {}),
                  Premise(A), StepBy(At("P", <<"b">>), {}), StepBy(At("P", <<"a">>), {2}), StepBy(At("R", <<"a", "a">>), {8}),
                  Premise(At("P", <<"a">>)), StepBy(B, {12}), StepBy(A, {12, 2}), StepBy(At("P", <<"a">>), {12}),
                  Premise(At("P", <<"a">>)), Premise(At("P", <<"b">>)), StepBy(B, {16}) >>,
     premises |-> <<1, 2, 3>>,
     subproofs |-> << [premises |-> <<4>>, lines |-> <<J(5), J(6), J(7)>>],
                      [premises |-> <<8>>, lines |-> <<J(9), J(10), J(11)>>],
                      [premises |-> <<12>>, lines |-> <<J(13), J(14), J(15)>>],
                      [premises |-> <<16, 17>>, lines |-> <<J(18)>>] >>]

SpecPred ==
    /\ \E r \in {RuleOf("ForallIntro"), RuleOf("ForallElim"), RuleOf("ExistsIntro"),
                 RuleOf("ExistsElim")},
          c \in {Quant("Forall", "x", At("P", <<"x">>)), Quant("Forall", "x", At("R", <<"x", "b">>)),
                 Quant("Forall", "x", At("R", <<"x", "x">>)), Quant("Exists", "x", At("P", <<"x">>)),
                 At("P", <<"a">>), At("P", <<"b">>), A, B} :
          \E ds \in [1..NumDeps(r).val -> {1, 2, 3, StaleRef(PredProof)}],
             sds \in [1..NumSubdeps(r).val -> 1..5] :
              CallOn(PredProof, r, c, ds, sds)
    /\ [][Check]_vars

(* The automation rules, called on a snapshot of propositional premises.   *)

AutoProof ==
    [lines |-> << Premise(A), Premise(Not(A)), Premise(Or2(A, B)), Premise(Or2(Not(A), C)),
                  Premise(Impl(A, B)), Premise(B), Premise(Assoc("And", <<A, B>>)),
                  Premise(Or2(A, Not(A))) >>,
     premises |-> <<1, 2, 3, 4, 5, 6, 7, 8>>,
     subproofs |-> <<>>]

AutoConclusions(r) ==
    IF r = RuleOf("Resolution")
    THEN {A, B, C, Not(A), Contra, Or2(A, B), Or2(B, C), Or2(C, B)}
    ELSE {A, B, C, Not(A), Or2(B, C), Impl(A, B), Impl(A, A), Assoc("And", <<A, B>>)}

SpecAuto ==
    /\ \E r \in {RuleOf("Resolution"), RuleOf("TautologicalConsequence"),
                 RuleOf("AsymmetricTautology")} :
          \E c \in AutoConclusions(r),
             ds \in (IF NumDeps(r).some
                     THEN [1..NumDeps(r).val -> (1..8) \cup {StaleRef(AutoProof)}]
                     ELSE SeqsUpTo((1..8) \cup {StaleRef(AutoProof)}, MaxPremises)) :
              CallOn(AutoProof, r, c, ds, <<>>)
    /\ [][Check]_vars

(* The equivalence rules with their normalizers given: every table over the *)
(* expressions of the proof stands for normalize_fn (or rule.reduce) and    *)
(* every table for sort_commutative_ops.  The rules called compare without  *)
(* the commutative sort (DeMorgan, Implication, NullQuantification) and     *)
(* with it (Distribution, ConditionalDistribution).                         *)

CheckEquivalence ==
    /\ pc = "call"
    /\ LET exprs == {proof.lines[i].expr : i \in 1..Len(proof.lines)}
       IN \E normalize_fn \in [exprs -> exprs], sort_commutative_ops \in [exprs -> exprs] :
             LET out == SharedChecksCheck(rule, proof, conclusion, deps, sdeps,
                                          [resumes |-> FALSE, pick |-> 0, eq |-> FALSE,
                                           norm |-> normalize_fn,
                                           sort |-> sort_commutative_ops])
             IN /\ result' = out.ret
                /\ inner' = out.inner
                /\ normalizer' = [normalize_fn |-> normalize_fn,
                                  sort_commutative_ops |-> sort_commutative_ops]
    /\ pc' = "done"
    /\ UNCHANGED <<proof, rule, conclusion, deps, sdeps, iterResumes, hashPick, normEqual,
                   table, wire, webVars>>

SpecNormalize ==
    /\ \E r \in {RuleOf("DeMorgan"), RuleOf("Distribution"), RuleOf("Implication"),
                 RuleOf("ConditionalDistribution"), RuleOf("NullQuantification")},
          c \in {Assoc("And", <<A, B>>), Assoc("And", <<B, A>>), A},
          d \in 1..4 :
          CallOn([lines |-> <<Premise(Assoc("And", <<A, B>>)), Premise(Assoc("And", <<B, A>>)),
                              Premise(A)>>,
                  premises |-> <<1, 2, 3>>,
                  subproofs |-> <<>>],
                 r, c, <<d>>, <<>>)
    /\ [][CheckEquivalence]_vars

(* ExcludedMiddle, called on conclusions of every shape: a disjunction or a *)
(* conjunction of up to MaxOperands operands, or an operand alone.          *)

SpecExcludedMiddle ==
    /\ \E es \in SeqsUpTo({A, B, Not(A), Not(B), Not(Not(A)), Contra, Or2(A, Not(A))},
                           MaxOperands) :
          \E c \in {Assoc("Or", es)}
                   \cup (IF Len(es) = 2 THEN {Assoc("And", es)} ELSE {})
                   \cup (IF Len(es) = 1 THEN {es[1]} ELSE {}),
             ds \in {<<>>, <<1>>} :
              CallOn(AutoProof, RuleOf("ExcludedMiddle"), c, ds, <<>>)
    /\ [][Check]_vars

(* any_order itself, called with every check_func over two or three       *)
(* dependencies: a check_func is the table of what it returns for each      *)
(* ordering.                                                                *)

Fallthrough == DepDoesNotExist(ImplPlaceHolder, TRUE)

\* a call any_order(deps, check_func, fallthrough_error) about to be made;
\* check_func returns Ok, WrongOrder or a definite error for each ordering
InitAnyOrder ==
    /\ pc = "call"
    /\ proof = PoolProof
    /\ rule = RuleOf("EmptyRule")
    /\ conclusion = Contra
    /\ deps = <<>>
    /\ sdeps = <<>>
    /\ iterResumes = FALSE
    /\ hashPick = 0
    /\ normEqual = FALSE
    /\ normalizer = <<>>
    /\ \E ds \in {<<A, B>>, <<A, B, Not(A)>>} :
          \E f \in [Orderings(ds) ->
                      {AnyOk, WrongOrder}
                      \cup {AnyErr(DoesNotOccur(Var("P"), Var(<<"Q", "R", "S">>[k]))) :
                                k \in 1..MaxErrKinds}] :
              table = [deps |-> ds, check_func |-> f]
    /\ wire = ""
    /\ inner = FALSE
    /\ result = NoResult
    /\ WebIdle

\* any_order(deps, check_func, fallthrough_error)
CallAnyOrder ==
    /\ pc = "call"
    /\ \E res \in BOOLEAN :
          /\ result' = AnyOrder(table.deps, table.check_func, Fallthrough, res)
          /\ iterResumes' = res
    /\ pc' = "done"
    /\ UNCHANGED <<proof, rule, conclusion, deps, sdeps, hashPick, normEqual, normalizer, table, wire,
                   inner, webVars>>

SpecAnyOrder == InitAnyOrder /\ [][CallAnyOrder]_vars

(* Serialized names: a rule is written to the wire and read back, or any  *)
(* string arrives on the wire.                                              *)

\* nothing has been called yet
Idle ==
    /\ pc = "idle"
    /\ proof = [lines |-> <<>>, premises |-> <<>>, body |-> <<>>, subproofs |-> <<>>]
    /\ rule = RuleOf("EmptyRule")
    /\ conclusion = Contra
    /\ deps = <<>>
    /\ sdeps = <<>>
    /\ iterResumes = FALSE
    /\ hashPick = 0
    /\ normEqual = FALSE
    /\ normalizer = <<>>
    /\ table = NoTable
    /\ wire = ""
    /\ inner = FALSE
    /\ result = NoResult
    /\ WebIdle

\* RuleM::to_serialized_name(rule)
Serialize ==
    /\ \E r \in Rules :
          /\ rule' = r
          /\ wire' = ToSerializedName(r)
    /\ pc' = "serialized"
    /\ result' = NoResult
    /\ UNCHANGED <<proof, conclusion, deps, sdeps, iterResumes, hashPick, normEqual, normalizer, table,
                   inner, webVars>>

\* RuleM::from_serialized_name of what to_serialized_name wrote
Deserialize ==
    /\ pc = "serialized"
    /\ result' = FromSerializedName(wire)
    /\ pc' = "deserialized"
    /\ UNCHANGED <<proof, rule, conclusion, deps, sdeps, iterResumes, hashPick, normEqual, normalizer,
                   table, wire, inner, webVars>>

\* RuleM::from_serialized_name of any string: a serialized name or not
Parse ==
    /\ \E name \in Range(ALL_SERIALIZED_NAMES)
                    \cup {<<"", "reiteration", "Reit", "MODUS PONENS", "REITERATION ", "Rule">>[k] :
                              k \in 1..MaxBadNames} :
          /\ wire' = name
          /\ result' = FromSerializedName(name)
    /\ pc' = "parsed"
    /\ UNCHANGED <<proof, rule, conclusion, deps, sdeps, iterResumes, hashPick, normEqual, normalizer,
                   table, inner, webVars>>

SpecSerial == Idle /\ [][Serialize \/ Deserialize \/ Parse]_vars

(* The id generator of the web-app, called from several threads.  The only *)
(* access to the shared counter is the atomic fetch_add, so a call is one   *)
(* step.                                                                    *)

\* a counter that is never advanced
FetchAddLost(cur) == cur

\* AtomicUsize::fetch_add(1, Relaxed): the counter's next value, wrapping
FetchAdd(cur) == (cur + 1) % (2 ^ UidBits)

\* uid(), called by thread t
Uid(t) ==
    /\ Len(ids) < MaxUidCalls
    /\ ids' = Append(ids, [thread |-> t, id |-> nextId])
    /\ nextId' = FetchAdd(nextId)
    /\ pc' = "uid"
    /\ UNCHANGED <<result, checkVars, tokens, added, app, handled, outbox>>

SpecUid == Idle /\ [][\E t \in 1..MaxThreads : Uid(t)]_vars

(* The expression parser (libaris parser.rs), on a text already cut into   *)
(* tokens: names, connectives and parentheses; blanks are skipped by the    *)
(* grammar and left out.  A parser returns the value parsed and the tokens  *)
(* left, or fails; alt! tries its alternatives in order.                    *)

RECURSIVE ParenExpr(_), AssocTermAux(_), ParseExpr(_)

\* assocterm taking the first operator for the chain's, without comparing
AssocTermFirstSymbol(ts) ==
    LET aux == AssocTermAux(ts)
    IN IF ~aux.ok THEN [ok |-> FALSE]
       ELSE IF Len(aux.exprs) = 1 THEN [ok |-> FALSE]
       ELSE [ok |-> TRUE, rest |-> aux.rest,
             val |-> Assoc(aux.syms[1],
                           [i \in 1..Len(aux.exprs) |-> aux.exprs[Len(aux.exprs) + 1 - i]])]

\* assocterm: a chain of two or more operands under one connective
AssocTerm(ts) ==
    LET aux == AssocTermAux(ts)
    IN IF ~aux.ok THEN [ok |-> FALSE]
       ELSE IF Len(aux.exprs) = 1 THEN [ok |-> FALSE]
       ELSE IF \E i \in 1..Len(aux.syms) : aux.syms[i] # aux.syms[1] THEN [ok |-> FALSE]
       ELSE [ok |-> TRUE, rest |-> aux.rest,
             val |-> Assoc(aux.syms[1],
                           [i \in 1..Len(aux.exprs) |-> aux.exprs[Len(aux.exprs) + 1 - i]])]

\* paren_expr: a name (predicate without arguments), ~ paren_expr, or an
\* expr in parentheses; bottom and binder do not occur in the texts parsed
ParenExpr(ts) ==
    IF ts = <<>> THEN [ok |-> FALSE]
    ELSE IF Head(ts) \in {"A", "B"} THEN [ok |-> TRUE, rest |-> Tail(ts), val |-> Var(Head(ts))]
    ELSE IF Head(ts) = "~"
         THEN LET e == ParenExpr(Tail(ts))
              IN IF e.ok THEN [ok |-> TRUE, rest |-> e.rest, val |-> Not(e.val)]
                 ELSE [ok |-> FALSE]
    ELSE IF Head(ts) = "("
         THEN LET e == ParseExpr(Tail(ts))
              IN IF e.ok /\ e.rest # <<>> /\ Head(e.rest) = ")"
                 THEN [ok |-> TRUE, rest |-> Tail(e.rest), val |-> e.val]
                 ELSE [ok |-> FALSE]
    ELSE [ok |-> FALSE]

\* assoctermaux: the operands, last first, and the connectives between them,
\* last first; an operand alone when no connective and chain follow
AssocTermAux(ts) ==
    LET e == ParenExpr(ts)
        sym == IF e.ok /\ e.rest # <<>>
               THEN (CASE Head(e.rest) = "&" -> "And"
                       [] Head(e.rest) = "|" -> "Or"
                       [] Head(e.rest) = "<->" -> "Bicon"
                       [] OTHER -> "")
               ELSE ""
        rec == IF sym # "" THEN AssocTermAux(Tail(e.rest)) ELSE [ok |-> FALSE]
    IN IF ~e.ok THEN [ok |-> FALSE]
       ELSE IF rec.ok
            THEN [ok |-> TRUE, rest |-> rec.rest, exprs |-> Append(rec.exprs, e.val),
                  syms |-> Append(rec.syms, sym)]
       ELSE [ok |-> TRUE, rest |-> e.rest, exprs |-> <<e.val>>, syms |-> <<>>]

\* expr: alt!(assocterm | binopterm | paren_expr)
ParseExpr(ts) ==
    LET assoc == AssocTerm(ts)
        left == ParenExpr(ts)
        right == IF left.ok /\ left.rest # <<>> /\ Head(left.rest) = "->"
                 THEN ParenExpr(Tail(left.rest)) ELSE [ok |-> FALSE]
    IN IF assoc.ok THEN assoc
       ELSE IF right.ok
            THEN [ok |-> TRUE, rest |-> right.rest, val |-> Impl(left.val, right.val)]
       ELSE left

\* the text of a chain: operands os with the operators ops between them
RECURSIVE Chain(_, _)
Chain(os, ops) ==
    IF Len(os) = 1 THEN os[1] ELSE os[1] \o <<ops[1]>> \o Chain(Tail(os), Tail(ops))

\* main: an expr and the end of the line
ParseMain ==
    /\ pc = "idle"
    /\ \E k \in 1..MaxChain :
          \E os \in [1..k -> {<<"A">>, <<"B">>, <<"~", "A">>, <<"(", "A", "&", "B", ")">>,
                               <<"(", "B", "|", "A", ")">>,
                               <<"(", "A", "&", "B", "|", "A", ")">>}],
             ops \in [1..(k - 1) -> {"&", "|", "<->", "->"}] :
              LET e == ParseExpr(Chain(os, ops))
              IN /\ tokens' = Chain(os, ops)
                 /\ result' = IF e.ok /\ e.rest = <<>> THEN Some(e.val) ELSE None
    /\ pc' = "main"
    /\ UNCHANGED <<checkVars, nextId, ids, added, app, handled, outbox>>

SpecParser == Idle /\ [][ParseMain]_vars

-----------------------------------------------------------------------------
(* Building a proof.  A proof starts empty (P::new()); add_premise and      *)
(* add_step add a line and return its reference, add_subproof adds a        *)
(* subproof and returns its reference.  The lines are kept in the pool      *)
(* p.lines, the subproofs in the pool p.subproofs, and a reference is the   *)
(* place in its pool; p.premises and p.body are premises() and lines() of   *)
(* the top-level proof.  The target t of an add is the top-level proof (0)  *)
(* or the subproof the line is added to.                                    *)

\* an add that puts the new line in front of the pool, moving the others
AddLineInFront(p, t, l) ==
    LET n == Len(p.lines) + 1
        q == [p EXCEPT !.lines = <<l>> \o @]
    IN IF l.kind = "premise"
       THEN IF t = 0 THEN [q EXCEPT !.premises = Append(@, n)]
            ELSE [q EXCEPT !.subproofs[t].premises = Append(@, n)]
       ELSE IF t = 0 THEN [q EXCEPT !.body = Append(@, J(n))]
            ELSE [q EXCEPT !.subproofs[t].lines = Append(@, J(n))]

\* the proof after the line l is added to t; the new line's reference is
\* the next free place of the pool
AddLine(p, t, l) ==
    LET n == Len(p.lines) + 1
        q == [p EXCEPT !.lines = Append(@, l)]
    IN IF l.kind = "premise"
       THEN IF t = 0 THEN [q EXCEPT !.premises = Append(@, n)]
            ELSE [q EXCEPT !.subproofs[t].premises = Append(@, n)]
       ELSE IF t = 0 THEN [q EXCEPT !.body = Append(@, J(n))]
            ELSE [q EXCEPT !.subproofs[t].lines = Append(@, J(n))]

\* add_premise(expr)
AddPremise ==
    /\ pc \in {"idle", "added"}
    /\ Len(added) < MaxAdds
    /\ \E t \in 0..Len(proof.subproofs), e \in {A, B} :
          /\ proof' = AddLine(proof, t, Premise(e))
          /\ result' = Len(proof.lines) + 1
          /\ added' = Append(added, [kind |-> "premise", ref |-> Len(proof.lines) + 1,
                                     into |-> t, what |-> Premise(e)])
    /\ pc' = "added"
    /\ UNCHANGED <<rule, conclusion, deps, sdeps, iterResumes, hashPick, normEqual, normalizer,
                   table, wire, inner, nextId, ids, tokens, app, handled, outbox>>

\* add_step(Justification(expr, rule, deps))
AddStep ==
    /\ pc \in {"idle", "added"}
    /\ Len(added) < MaxAdds
    /\ \E t \in 0..Len(proof.subproofs), e \in {A, B} :
          /\ proof' = AddLine(proof, t, Step(e))
          /\ result' = Len(proof.lines) + 1
          /\ added' = Append(added, [kind |-> "step", ref |-> Len(proof.lines) + 1,
                                     into |-> t, what |-> Step(e)])
    /\ pc' = "added"
    /\ UNCHANGED <<rule, conclusion, deps, sdeps, iterResumes, hashPick, normEqual, normalizer,
                   table, wire, inner, nextId, ids, tokens, app, handled, outbox>>

\* add_subproof(sub): the subproof is put in the pool and its reference at
\* the end of the target's lines; its own lines are added with it as target
AddSubproof ==
    /\ pc \in {"idle", "added"}
    /\ Len(added) < MaxAdds
    /\ \E t \in 0..Len(proof.subproofs) :
          LET s == Len(proof.subproofs) + 1
              q == [proof EXCEPT !.subproofs = Append(@, [premises |-> <<>>, lines |-> <<>>])]
          IN /\ proof' = IF t = 0 THEN [q EXCEPT !.body = Append(@, [kind |-> "S", ref |-> s])]
                         ELSE [q EXCEPT !.subproofs[t].lines =
                                            Append(@, [kind |-> "S", ref |-> s])]
             /\ result' = s
             /\ added' = Append(added, [kind |-> "subproof", ref |-> s, into |-> t,
                                        what |-> [premises |-> <<>>, lines |-> <<>>]])
    /\ pc' = "added"
    /\ UNCHANGED <<rule, conclusion, deps, sdeps, iterResumes, hashPick, normEqual, normalizer,
                   table, wire, inner, nextId, ids, tokens, app, handled, outbox>>

(* Line numbers and indentation for display.  The traversal state is        *)
(* [output, line, depth]: the map filled so far and the two counters handed *)
(* on by reference; prems and ls are what is left of prf.premises() and     *)
(* prf.lines() in the two loops.                                            *)

RECURSIVE CalculateLineinfoKeepDepth(_, _, _, _)
\* a traversal that does not take the depth back when a subproof ends
CalculateLineinfoKeepDepth(p, st, prems, ls) ==
    IF prems # <<>>
    THEN CalculateLineinfoKeepDepth(p,
             [st EXCEPT !.output = (Head(prems) :> <<st.line, st.depth>>) @@ @,
                        !.line = @ + 1],
             Tail(prems), ls)
    ELSE IF ls = <<>> THEN st
    ELSE IF Head(ls).kind = "J"
    THEN CalculateLineinfoKeepDepth(p,
             [st EXCEPT !.output = (Head(ls).ref :> <<st.line, st.depth>>) @@ @,
                        !.line = @ + 1],
             <<>>, Tail(ls))
    ELSE LET sub == LookupSubproof(p, Head(ls).ref)
             inside == CalculateLineinfoKeepDepth(p, [st EXCEPT !.depth = @ + 1],
                                                  sub.premises, sub.lines)
         IN CalculateLineinfoKeepDepth(p, inside, <<>>, Tail(ls))

RECURSIVE CalculateLineinfoHelper(_, _, _, _)
\* calculate_lineinfo_helper(output, prf, line, depth)
CalculateLineinfoHelper(p, st, prems, ls) ==
    IF prems # <<>>
    THEN CalculateLineinfoHelper(p,
             [st EXCEPT !.output = (Head(prems) :> <<st.line, st.depth>>) @@ @,
                        !.line = @ + 1],
             Tail(prems), ls)
    ELSE IF ls = <<>> THEN st
    ELSE IF Head(ls).kind = "J"
    THEN CalculateLineinfoHelper(p,
             [st EXCEPT !.output = (Head(ls).ref :> <<st.line, st.depth>>) @@ @,
                        !.line = @ + 1],
             <<>>, Tail(ls))
    ELSE LET sub == LookupSubproof(p, Head(ls).ref)
             inside == CalculateLineinfoHelper(p, [st EXCEPT !.depth = @ + 1],
                                               sub.premises, sub.lines)
         IN CalculateLineinfoHelper(p, [inside EXCEPT !.depth = @ - 1], <<>>, Tail(ls))

RECURSIVE WebCalculateLineinfo(_, _, _, _)
\* the web application's calculate_lineinfo(output, prf, line, depth)
WebCalculateLineinfo(p, st, prems, ls) ==
    IF prems # <<>>
    THEN WebCalculateLineinfo(p,
             [st EXCEPT !.output = (Head(prems) :> <<st.line, st.depth>>) @@ @,
                        !.line = @ + 1],
             Tail(prems), ls)
    ELSE IF ls = <<>> THEN st
    ELSE IF Head(ls).kind = "J"
    THEN WebCalculateLineinfo(p,
             [st EXCEPT !.output = (Head(ls).ref :> <<st.line, st.depth>>) @@ @,
                        !.line = @ + 1],
             <<>>, Tail(ls))
    ELSE LET sub == LookupSubproof(p, Head(ls).ref)
             inside == WebCalculateLineinfo(p, [st EXCEPT !.depth = @ + 1],
                                            sub.premises, sub.lines)
         IN WebCalculateLineinfo(p, [inside EXCEPT !.depth = @ - 1], <<>>, Tail(ls))

\* calculate_lineinfo(proof): an empty map, line 1, depth 0, the top-level
\* proof; the state the traversal ends in is kept whole
CalculateLineinfo ==
    /\ pc \in {"idle", "added"}
    /\ result' = CalculateLineinfoHelper(proof, [output |-> <<>>, line |-> 1, depth |-> 0],
                                         proof.premises, proof.body)
    /\ pc' = "lineinfo"
    /\ UNCHANGED <<checkVars, webVars>>

SpecBuild == Idle /\ [][AddPremise \/ AddStep \/ AddSubproof \/ CalculateLineinfo]_vars

-----------------------------------------------------------------------------
(* The App component of the web application.  A link is the number of the   *)
(* component it leads to, a callback f is the number of the message that    *)
(* carried it.  send_message puts a message in the other component's queue; *)
(* outbox keeps every message sent, with `at` the number of the App message *)
(* whose handling sent it and `delivered` once the receiver has handled it. *)

\* App::update(msg); the value returned is ShouldRender
Update ==
    /\ pc \in {"idle", "update", "tab", "called"}
    /\ Len(handled) < MaxAppMsgs
    /\ \E msg \in [type : {"TabbedContainerInit", "MenuWidgetInit"}, link : {1}]
                  \cup [type : {"CreateTab"}, name : {"a"}]
                  \cup [type : {"RegisterProofName"}, name : {"a", "b"}, link : {1, 2}]
                  \cup [type : {"GetProofFromCurrentTab"}] :
          LET n == Len(handled) + 1
              after ==
                  CASE msg.type = "TabbedContainerInit" ->
                         [app EXCEPT !.tabcontainer_link = Some(msg.link)]
                    [] msg.type = "MenuWidgetInit" ->
                         [app EXCEPT !.menuwidget_link = Some(msg.link)]
                    [] msg.type = "RegisterProofName" ->
                         [app EXCEPT !.proofs = (msg.name :> msg.link) @@ @]
                    [] OTHER -> app
          IN /\ app' = after
             /\ handled' = Append(handled, [msg |-> msg, before |-> app, after |-> after])
             /\ outbox' =
                  CASE msg.type = "MenuWidgetInit" ->
                         Append(outbox, [to |-> "MenuWidget", link |-> msg.link,
                                         msg |-> "FileNew", at |-> n, delivered |-> FALSE])
                    [] msg.type = "CreateTab" /\ app.tabcontainer_link.some ->
                         Append(outbox, [to |-> "TabbedContainer",
                                         link |-> app.tabcontainer_link.val,
                                         msg |-> "CreateTab", name |-> msg.name,
                                         at |-> n, delivered |-> FALSE])
                    [] msg.type = "GetProofFromCurrentTab" /\ app.tabcontainer_link.some ->
                         Append(outbox, [to |-> "TabbedContainer",
                                         link |-> app.tabcontainer_link.val,
                                         msg |-> "GetCurrentTab", proofs |-> app.proofs,
                                         f |-> n, at |-> n, delivered |-> FALSE])
                    [] OTHER -> outbox
             /\ result' = (msg.type = "CreateTab")
    /\ pc' = "update"
    /\ UNCHANGED <<checkVars, nextId, ids, tokens, added>>

\* the closure of GetCurrentTab looking the name up in the App's proofs as
\* they are when it runs
GetCurrentTabLiveProofs ==
    /\ pc \in {"update", "tab", "called"}
    /\ \E k \in 1..Len(outbox), name \in {"a", "b"} :
          /\ outbox[k].msg = "GetCurrentTab"
          /\ ~outbox[k].delivered
          /\ outbox' =
               IF name \in DOMAIN app.proofs
               THEN Append([outbox EXCEPT ![k].delivered = TRUE],
                           [to |-> "ProofWidget", link |-> app.proofs[name],
                            msg |-> "CallOnProof", f |-> outbox[k].f, name |-> name,
                            at |-> outbox[k].at, delivered |-> FALSE])
               ELSE [outbox EXCEPT ![k].delivered = TRUE]
    /\ pc' = "tab"
    /\ UNCHANGED <<result, checkVars, nextId, ids, tokens, added, app, handled>>

\* the tabbed container handles GetCurrentTab: it calls the closure with the
\* name of its current tab, whichever that is; the closure looks the name
\* up in its copy of proofs and sends CallOnProof to the link found
GetCurrentTab ==
    /\ pc \in {"update", "tab", "called"}
    /\ \E k \in 1..Len(outbox), name \in {"a", "b"} :
          /\ outbox[k].msg = "GetCurrentTab"
          /\ ~outbox[k].delivered
          /\ outbox' =
               IF name \in DOMAIN outbox[k].proofs
               THEN Append([outbox EXCEPT ![k].delivered = TRUE],
                           [to |-> "ProofWidget", link |-> outbox[k].proofs[name],
                            msg |-> "CallOnProof", f |-> outbox[k].f, name |-> name,
                            at |-> outbox[k].at, delivered |-> FALSE])
               ELSE [outbox EXCEPT ![k].delivered = TRUE]
    /\ pc' = "tab"
    /\ UNCHANGED <<result, checkVars, nextId, ids, tokens, added, app, handled>>

\* the proof widget handles CallOnProof: f(name, prf) is called
CallOnProof ==
    /\ pc \in {"update", "tab", "called"}
    /\ \E k \in 1..Len(outbox) :
          /\ outbox[k].msg = "CallOnProof"
          /\ ~outbox[k].delivered
          /\ outbox' = [outbox EXCEPT ![k].delivered = TRUE]
          /\ result' = [f |-> outbox[k].f, name |-> outbox[k].name, prf |-> outbox[k].link]
    /\ pc' = "called"
    /\ UNCHANGED <<checkVars, nextId, ids, tokens, added, app, handled>>

SpecApp == Idle /\ [][Update \/ GetCurrentTab \/ CallOnProof]_vars

-----------------------------------------------------------------------------
(* Properties of the arity checks and of the ways a call ends (SpecArity). *)

Returned == pc = "done"
DepCountDeclared == NumDeps(rule).some
DepCountWrong == DepCountDeclared /\ Len(deps) # NumDeps(rule).val
SubDepCountDeclared == NumSubdeps(rule).some
SubDepCountWrong == SubDepCountDeclared /\ Len(sdeps) # NumSubdeps(rule).val

\* C1: a rule that declares Some(n) direct dependencies, called with a number
\* of direct dependencies other than n, returns IncorrectDepCount(deps, n)
\* whatever the conclusion and the subproof dependencies are, and the rule's
\* own check is not called.
C1_DepCountGate ==
    (Returned /\ DepCountWrong)
        => (result = IncorrectDepCount(deps, NumDeps(rule).val) /\ ~inner)

\* a three-dependency rule called with two stale references and a wrong number
\* of subproofs
C1_Witness ==
    /\ Returned
    /\ rule = RuleOf("ConstructiveDilemma")
    /\ deps = <<StaleRef(proof), StaleRef(proof)>>
    /\ Len(sdeps) = 2
    /\ result = IncorrectDepCount(deps, 3)
    /\ ~inner

\* C2 as stated: a rule that declares Some(m) subproof dependencies, called
\* with a number of subproof dependencies other than m, returns
\* IncorrectSubDepCount(sdeps, m) whichever direct dependencies are supplied.
C2_AsStated ==
    (Returned /\ SubDepCountWrong)
        => result = IncorrectSubDepCount(sdeps, NumSubdeps(rule).val)

\* C2, amended: it does so when the number of direct dependencies passes the
\* check made before it (none declared, or the declared number supplied), and
\* then the rule's own check is not called; a wrong number of direct
\* dependencies is reported first.
C2_SubDepCountGate ==
    (Returned /\ SubDepCountWrong)
        => /\ ~inner
           /\ result = IF DepCountWrong
                       THEN IncorrectDepCount(deps, NumDeps(rule).val)
                       ELSE IncorrectSubDepCount(sdeps, NumSubdeps(rule).val)

\* Reiteration called with one stale dependency and two subproofs
C2_Witness ==
    /\ Returned
    /\ rule = RuleOf("Reit")
    /\ deps = <<StaleRef(proof)>>
    /\ sdeps = <<2, 3>>
    /\ result = IncorrectSubDepCount(<<2, 3>>, 0)

\* C3: every call returns Ok or one ProofCheckError value; none aborts.
C3_ErrorsAreValues == Returned => (IsOk(result) \/ result.tag \in ErrorTags)

\* C7: the Empty Rule returns Other("No rule selected") for every conclusion
\* and every list of dependencies and of subproofs, and is in no rule
\* classification.
C7_EmptyRuleAlwaysFails ==
    (Returned /\ rule = RuleOf("EmptyRule"))
        => /\ result = Other("No rule selected", <<>>)
           /\ GetClassifications(rule) = {}
           /\ \A k \in RuleClassifications : rule \notin ClassificationRules(k)

\* the Empty Rule called with three dependencies and two subproofs
C7_Witness ==
    /\ Returned
    /\ rule = RuleOf("EmptyRule")
    /\ Len(deps) = 3
    /\ Len(sdeps) = 2
    /\ inner
    /\ result = Other("No rule selected", <<>>)

-----------------------------------------------------------------------------
(* Properties of any_order (SpecAnyOrder). *)

\* what check_func returned over the orderings of the dependencies
Returns == {table.check_func[q] : q \in Orderings(table.deps)}
DefiniteErrors == {x.err : x \in {y \in Returns : y.tag = "Err"}}

-----------------------------------------------------------------------------
(* Properties of the inference rules over lines (SpecInfer). *)

AllResolve == \A i \in 1..Len(deps) : HasLine(proof, deps[i])
DepExpr(i) == LookupExpr(proof, deps[i])
DepExprs == {DepExpr(i) : i \in 1..Len(deps)}

\* the dependencies are P -> Q and ~Q, with the implication at position i
TollensAt(i, j) == IsImpl(DepExpr(i)) /\ DepExpr(j) = Not(DepExpr(i).right)

OrderInsensitiveRules ==
    {RuleOf("ImpElim"), RuleOf("ModusTollens"), RuleOf("HypotheticalSyllogism"),
     RuleOf("ContradictionIntro"), RuleOf("BiconditionalElim"), RuleOf("EquivalenceElim"),
     RuleOf("ConstructiveDilemma")}

\* C6: for the order-insensitive rules the verdict (Ok or not) of check is the
\* same for every permutation of the direct dependencies.
C6_VerdictIgnoresOrder ==
    (Returned /\ rule \in OrderInsensitiveRules)
        => \A q \in Orderings(deps) : \A res \in BOOLEAN :
              IsOk(SharedChecksCheck(rule, proof, conclusion, q, sdeps,
                                     [resumes |-> res, pick |-> hashPick, eq |-> normEqual,
                                      norm |-> NormalFormTable(proof, conclusion, normEqual),
                                      sort |-> NormalFormTable(proof, conclusion, FALSE)]).ret) = IsOk(result)

\* ModusTollens accepts ~A from ~B, A -> B: the implication comes second
C6_Witness ==
    /\ Returned
    /\ rule = RuleOf("ModusTollens")
    /\ deps = <<4, 5>>
    /\ conclusion = Not(A)
    /\ IsOk(result)

\* C9: Reiteration returns Ok exactly when its dependency's expression is the
\* conclusion; for a dependency with another expression it returns
\* DoesNotOccur(conclusion, that expression).
C9_Reiteration ==
    (Returned /\ rule = RuleOf("Reit"))
        => /\ IsOk(result) <=> (AllResolve /\ DepExpr(1) = conclusion)
           /\ (AllResolve /\ DepExpr(1) # conclusion)
                  => result = DoesNotOccur(conclusion, DepExpr(1))

\* B is not a reiteration of A -> B
C9_Witness ==
    /\ Returned
    /\ rule = RuleOf("Reit")
    /\ deps = <<5>>
    /\ conclusion = B
    /\ result = DoesNotOccur(B, Impl(A, B))

\* C10: ConjunctionIntroduction returns Ok exactly when the conclusion is
\* And(exprs), every dependency's expression is among exprs and every element
\* of exprs is some dependency's expression; a conclusion that is no And gives
\* ConclusionOfWrongForm, a dependency not among exprs DoesNotOccur(dep,
\* conclusion), an operand without dependency DepDoesNotExist(operand, false).
C10_ConjunctionIntroduction ==
    (Returned /\ rule = RuleOf("AndIntro"))
        => LET isAnd == IsAssocOf(conclusion, "And")
               exprs == Range(conclusion.exprs)
           IN /\ IsOk(result) <=> (isAnd /\ AllResolve /\ DepExprs = exprs)
              /\ ~isAnd => result = ConclusionOfWrongForm(AssocPlaceholder("And"))
              /\ (isAnd /\ AllResolve /\ ~(DepExprs \subseteq exprs))
                     => \E e \in DepExprs \ exprs : result = DoesNotOccur(e, conclusion)
              /\ (isAnd /\ AllResolve /\ DepExprs \subseteq exprs /\ DepExprs # exprs)
                     => \E e \in exprs \ DepExprs : result = DepDoesNotExist(e, FALSE)

\* B & A from B, A and B again is accepted
C10_Witness ==
    /\ Returned
    /\ rule = RuleOf("AndIntro")
    /\ deps = <<2, 1, 2>>
    /\ conclusion = Assoc("And", <<B, A>>)
    /\ IsOk(result)

-----------------------------------------------------------------------------
(* Properties of the eliminations and of the rules that discharge          *)
(* subproofs (SpecNd).                                                      *)

\* C11: ConjunctionElimination returns Ok exactly when its dependency is
\* And(exprs) and the conclusion is one of exprs; for an And without the
\* conclusion it returns DoesNotOccur(conclusion, dependency), for a
\* dependency that is no And DepDoesNotExist(And placeholder, true).
C11_ConjunctionElimination ==
    (Returned /\ rule = RuleOf("AndElim"))
        => LET isAnd == IsAssocOf(DepExpr(1), "And")
               occurs == conclusion \in Range(DepExpr(1).exprs)
           IN /\ IsOk(result) <=> (AllResolve /\ isAnd /\ occurs)
              /\ (AllResolve /\ isAnd /\ ~occurs)
                     => result = DoesNotOccur(conclusion, DepExpr(1))
              /\ (AllResolve /\ ~isAnd)
                     => result = DepDoesNotExist(AssocPlaceholder("And"), TRUE)

\* B is taken out of A & B & C
C11_Witness ==
    /\ Returned
    /\ rule = RuleOf("AndElim")
    /\ DepExpr(1) = Assoc("And", <<A, B, C>>)
    /\ conclusion = B
    /\ IsOk(result)

SubsResolve == \A i \in 1..Len(sdeps) : HasSubproof(proof, sdeps[i])
\* the subproofs cited
Cited == {LookupSubproof(proof, sdeps[i]) : i \in 1..Len(sdeps)}
\* the expressions of the premises of a subproof
PremiseExprs(sp) == {LookupExpr(proof, sp.premises[k]) : k \in 1..Len(sp.premises)}

\* C12: DisjunctionElimination on a dependency Or(exprs) returns Ok exactly
\* when every cited subproof has exactly one premise and that premise is one
\* of exprs, every one of exprs is the premise of some cited subproof, and
\* every cited subproof has a line equal to the conclusion.
C12_DisjunctionElimination ==
    (Returned /\ rule = RuleOf("OrElim") /\ AllResolve /\ IsAssocOf(DepExpr(1), "Or"))
        => (IsOk(result) <=>
               /\ SubsResolve
               /\ \A sp \in Cited : /\ Len(sp.premises) = 1
                                    /\ PremiseExprs(sp) \subseteq Range(DepExpr(1).exprs)
               /\ \A e \in Range(DepExpr(1).exprs) : \E sp \in Cited : e \in PremiseExprs(sp)
               /\ \A sp \in Cited : conclusion \in LineExprs(proof, sp))

\* the one cited subproof discharges `left` for `right`: it has a single
\* premise, which is left, and one of its lines is right
Discharges(left, right) ==
    /\ SubsResolve
    /\ LET sp == LookupSubproof(proof, sdeps[1])
       IN /\ Len(sp.premises) = 1
          /\ PremiseExprs(sp) = {left}
          /\ right \in LineExprs(proof, sp)

\* C13: ImplicationIntroduction on one subproof returns Ok exactly when the
\* conclusion is left -> right, the subproof's single premise is left and
\* some line of the subproof is right; NegationIntroduction exactly when the
\* conclusion is ~operand, the single premise is operand and some line is
\* the contradiction.
C13_Discharge ==
    /\ (Returned /\ rule = RuleOf("ImpIntro"))
           => (IsOk(result) <=>
                  (IsImpl(conclusion) /\ Discharges(conclusion.left, conclusion.right)))
    /\ (Returned /\ rule = RuleOf("NotIntro"))
           => (IsOk(result) <=> (IsNot(conclusion) /\ Discharges(conclusion.operand, Contra)))

\* A -> C is concluded from the subproof that assumes A and reaches B, C and
\* the contradiction
C13_Witness ==
    /\ Returned
    /\ rule = RuleOf("ImpIntro")
    /\ sdeps = <<1>>
    /\ conclusion = Impl(A, C)
    /\ IsOk(result)

\* the connective of the <-> introduction being checked
IntroOper == IF rule = RuleOf("EquivalenceIntro") THEN "Equiv" ELSE "Bicon"

\* the graph of the claim: both directions among the operands of a dependency
\* of the connective, left to right for an implication, and from the premise
\* of a cited subproof to each of its lines
ImpliedEdges ==
    UNION {IF IsAssocOf(DepExpr(i), IntroOper)
           THEN Range(DepExpr(i).exprs) \X Range(DepExpr(i).exprs)
           ELSE IF IsImpl(DepExpr(i)) THEN {<<DepExpr(i).left, DepExpr(i).right>>}
           ELSE {} : i \in 1..Len(deps)}
    \cup UNION {PremiseExprs(sp) \X LineExprs(proof, sp) : sp \in Cited}
ImpliedNodes == {e[1] : e \in ImpliedEdges} \cup {e[2] : e \in ImpliedEdges}
Reaches(x, y) == y \in ReachableFrom({x}, ImpliedEdges)
SccOf(n) == {m \in ImpliedNodes : Reaches(n, m) /\ Reaches(m, n)}
\* all operands of the conclusion lie in one strongly connected component
InOneScc == \E n \in ImpliedNodes : Range(conclusion.exprs) \subseteq SccOf(n)

\* C14 as stated: an <-> introduction returns Ok exactly when the conclusion
\* has the rule's connective and all its operands lie in one strongly
\* connected component of the graph.
C14_AsStated ==
    (Returned /\ rule \in IntroRules /\ AllResolve /\ SubsResolve)
        => (IsOk(result) <=> (IsAssocOf(conclusion, IntroOper) /\ InOneScc))

\* C14, amended: it does so exactly when, besides, a conclusion of
\* BiconditionalIntroduction has two operands, every dependency is of the
\* rule's connective or an implication, and every cited subproof has exactly
\* one premise.
C14_Introduction ==
    (Returned /\ rule \in IntroRules /\ AllResolve /\ SubsResolve)
        => (IsOk(result) <=>
               /\ IsAssocOf(conclusion, IntroOper)
               /\ rule = RuleOf("BiconditionalIntro") => Len(conclusion.exprs) = 2
               /\ \A i \in 1..Len(deps) :
                      IsAssocOf(DepExpr(i), IntroOper) \/ IsImpl(DepExpr(i))
               /\ \A sp \in Cited : Len(sp.premises) = 1
               /\ InOneScc)

\* A, B and C are equivalent: B and C by a dependency, B from A and A from B
\* by two subproofs
C14_Witness ==
    /\ Returned
    /\ rule = RuleOf("EquivalenceIntro")
    /\ deps = <<9>>
    /\ sdeps = <<1, 2>>
    /\ conclusion = Assoc("Equiv", <<A, B, C>>)
    /\ IsOk(result)

\* the operands of the biconditional bic that are left when those of the
\* other dependency are taken out, in their order
Remaining(bic, other) ==
    LET S == IF IsAssocOf(other, "Bicon") THEN Range(other.exprs) ELSE {other}
    IN SelectSeq(bic.exprs, LAMBDA x : x \notin S)

\* the conclusion is what is left of the biconditional bic without `other`
Eliminates(bic, other) ==
    /\ IsAssocOf(bic, "Bicon")
    /\ LET S == IF IsAssocOf(other, "Bicon") THEN Range(other.exprs) ELSE {other}
           rest == Remaining(bic, other)
       IN /\ S \subseteq Range(bic.exprs)
          /\ conclusion = IF Len(rest) = 1 THEN rest[1] ELSE Assoc("Bicon", rest)

\* C15: BiconditionalElimination returns Ok exactly when one of its two
\* dependencies is a biconditional, every element of S (the operands of the
\* other dependency if that is a biconditional, else the other dependency
\* itself) is among its operands, and the conclusion is the biconditional of
\* its operands outside S in their order, or the one operand left.
C15_BiconditionalElimination ==
    (Returned /\ rule = RuleOf("BiconditionalElim"))
        => (IsOk(result) <=>
               /\ AllResolve
               /\ \/ Eliminates(DepExpr(1), DepExpr(2))
                  \/ Eliminates(DepExpr(2), DepExpr(1)))

\* A is left of A <-> B <-> C when B <-> C, cited first, is taken out
C15_Witness ==
    /\ Returned
    /\ rule = RuleOf("BiconditionalElim")
    /\ deps = <<8, 7>>
    /\ conclusion = A
    /\ IsOk(result)

-----------------------------------------------------------------------------
(* Properties of the quantifier rules (SpecPred). *)

\* the transitive dependencies of the line r that lie outside the subproof sp
OutsideDeps(sp, r) ==
    {d \in TransitiveDependencies(proof, r) \ ContainedJustifications(proof, sp) :
        HasLine(proof, d)}

\* the line r of the subproof sp generalizes to the conclusion forall name, body
Generalizes(sp, r) ==
    LET u == UnifiesWrtVar(conclusion.body, LookupExpr(proof, r), conclusion.name)
    IN /\ u.ok
       /\ u.val.tag = "Var"
       /\ \A d \in OutsideDeps(sp, r) : u.val.name \notin FreeVars(LookupExpr(proof, d))
       /\ Subst(conclusion.body, u.val.name, Var(conclusion.name)) = conclusion.body
       /\ \A k \in 1..Len(sp.premises) :
              sp.premises[k] \notin TransitiveDependencies(proof, r)

\* C16: UniversalIntroduction with conclusion forall name, body returns Ok
\* whenever some line of the cited subproof, at whatever position, unifies
\* with body to a variable c that is free in no transitive dependency of the
\* line outside the subproof, with body unchanged by replacing c by name, and
\* with no premise of the subproof among the line's transitive dependencies.
C16_UniversalIntroduction ==
    (/\ Returned
     /\ rule = RuleOf("ForallIntro")
     /\ SubsResolve
     /\ IsQuantOf(conclusion, "Forall")
     /\ \E l \in Range(SubproofExprs(LookupSubproof(proof, sdeps[1]))) :
            Generalizes(LookupSubproof(proof, sdeps[1]), l.ref))
        => IsOk(result)

\* the names a skolem constant can have
SkolemNames == {"x", "a", "b"}

\* C17: whenever ExistentialElimination returns Ok, the cited subproof has
\* exactly one premise, which is the body of the existential dependency with
\* the bound variable replaced by a variable (the skolem constant); that
\* constant is not free in the conclusion; and some line of the subproof is
\* the conclusion and has the constant free in none of its transitive
\* dependencies outside the subproof.
C17_WitnessDoesNotEscape ==
    (Returned /\ rule = RuleOf("ExistsElim") /\ IsOk(result))
        => /\ AllResolve
           /\ SubsResolve
           /\ IsQuantOf(DepExpr(1), "Exists")
           /\ LET sp == LookupSubproof(proof, sdeps[1])
              IN /\ Len(sp.premises) = 1
                 /\ \E sk \in SkolemNames :
                       /\ LookupExpr(proof, sp.premises[1])
                              = Subst(DepExpr(1).body, DepExpr(1).name, Var(sk))
                       /\ sk \notin FreeVars(conclusion)
                       /\ \E l \in Range(SubproofExprs(sp)) :
                             /\ LookupExpr(proof, l.ref) = conclusion
                             /\ \A d \in OutsideDeps(sp, l.ref) :
                                    sk \notin FreeVars(LookupExpr(proof, d))

\* from exists x, P(x) and the subproof that assumes P(a), B is concluded
C17_Witness ==
    /\ Returned
    /\ rule = RuleOf("ExistsElim")
    /\ deps = <<1>>
    /\ sdeps = <<3>>
    /\ conclusion = B
    /\ IsOk(result)

-----------------------------------------------------------------------------
(* Properties of the automation rules (SpecAuto). *)

\* C18: Resolution returns the same verdict (Ok or not) for the dependencies
\* (d1, d2) and for (d2, d1), whatever the conclusion.
C18_ResolutionSymmetry ==
    (Returned /\ rule = RuleOf("Resolution"))
        => \A res \in BOOLEAN, pick \in {0, 1} :
              IsOk(SharedChecksCheck(rule, proof, conclusion, <<deps[2], deps[1]>>, sdeps,
                                     [resumes |-> res, pick |-> pick, eq |-> normEqual,
                                      norm |-> NormalFormTable(proof, conclusion, normEqual),
                                      sort |-> NormalFormTable(proof, conclusion, FALSE)]).ret) = IsOk(result)

\* B | C is resolved from ~A | C and A | B
C18_Witness ==
    /\ Returned
    /\ rule = RuleOf("Resolution")
    /\ deps = <<4, 3>>
    /\ conclusion = Or2(B, C)
    /\ IsOk(result)

\* every truth assignment that makes all dependencies true makes the
\* conclusion true
Entails ==
    \A v \in [UNION {FreeVars(e) : e \in DepExprs \cup {conclusion}} -> BOOLEAN] :
        (\A e \in DepExprs : Eval(e, v)) => Eval(conclusion, v)

\* C27: Resolution is sound on propositional inputs: whenever it returns Ok
\* for the dependencies d1, d2 and the conclusion c, every truth assignment
\* that makes d1 and d2 true makes c true.
C27_ResolutionSound ==
    (Returned /\ rule = RuleOf("Resolution") /\ IsOk(result)) => Entails

\* C19: TautologicalConsequence on propositional dependencies and conclusion
\* returns Ok exactly when the dependencies entail the conclusion; otherwise
\* it returns an Other error carrying a truth assignment that makes every
\* dependency true and the conclusion false.
C19_TautologicalConsequence ==
    (Returned /\ rule = RuleOf("TautologicalConsequence") /\ AllResolve)
        => /\ IsOk(result) <=> Entails
           /\ ~Entails =>
                 /\ result.tag = "Other"
                 /\ result.msg = "Not true by tautological consequence; Counterexample: {}"
                 /\ \A e \in DepExprs : Eval(e, result.args[1])
                 /\ ~Eval(conclusion, result.args[1])

\* C does not follow from A and A -> B: A and B true, C false
C19_Witness ==
    /\ Returned
    /\ rule = RuleOf("TautologicalConsequence")
    /\ deps = <<1, 5>>
    /\ conclusion = C
    /\ result = Other("Not true by tautological consequence; Counterexample: {}",
                      <<[n \in {"A", "B", "C"} |-> n # "C"]>>)

\* C20: AsymmetricTautology called without subproofs returns the error value
\* Other("not implemented"), whatever the dependencies and the conclusion,
\* and never Ok.
C20_AsymmetricTautologyReserved ==
    (Returned /\ rule = RuleOf("AsymmetricTautology") /\ sdeps = <<>>)
        => result = Other("not implemented", <<>>)

\* the lines of the snapshot that are justified steps
StepLines == {l \in 1..Len(proof.lines) : proof.lines[l].kind = "step"}

\* C22: the verdict of check does not depend on the rule named by any step
\* of the proof: on a proof that differs from the one checked only in the
\* rule of one justified line (same expressions, same dependency lists),
\* check returns the same result.
C22_ChecksAreLocal ==
    Returned
        => \A l \in StepLines :
              \A r \in {RuleOf("Reit"), RuleOf("AndIntro"), RuleOf("ExcludedMiddle")} :
                  SharedChecksCheck(rule, [proof EXCEPT !.lines[l].rule = r], conclusion,
                                    deps, sdeps,
                                    [resumes |-> iterResumes, pick |-> hashPick,
                                     eq |-> normEqual,
                                      norm |-> NormalFormTable(proof, conclusion, normEqual),
                                      sort |-> NormalFormTable(proof, conclusion, FALSE)]).ret = result

\* C follows from A | B by cases whose lines C name no rule at all
C22_Witness ==
    /\ Returned
    /\ rule = RuleOf("OrElim")
    /\ deps = <<3>>
    /\ sdeps = <<1, 2>>
    /\ conclusion = C
    /\ proof.lines[12].rule = RuleOf("EmptyRule")
    /\ proof.lines[16].rule = RuleOf("EmptyRule")
    /\ IsOk(result)

-----------------------------------------------------------------------------
(* Properties of ExcludedMiddle (SpecExcludedMiddle). *)

\* C21: ExcludedMiddle with no dependencies returns Ok exactly when the
\* conclusion is an Or of exactly two operands whose second operand is the
\* negation of the first; for a two-operand Or(A, B) with B other than
\* Not(A) it returns DoesNotOccur(B, Not(A)); for every other conclusion it
\* returns ConclusionOfWrongForm.
C21_ExcludedMiddle ==
    (Returned /\ rule = RuleOf("ExcludedMiddle") /\ deps = <<>> /\ sdeps = <<>>)
        => LET twoOr == IsAssocOf(conclusion, "Or") /\ Len(conclusion.exprs) = 2
           IN /\ IsOk(result) <=> (twoOr /\ conclusion.exprs[2] = Not(conclusion.exprs[1]))
              /\ (twoOr /\ conclusion.exprs[2] # Not(conclusion.exprs[1]))
                    => result = DoesNotOccur(conclusion.exprs[2], Not(conclusion.exprs[1]))
              /\ ~twoOr => result.tag = "ConclusionOfWrongForm"

\* ~A | A is refused: A is not the negation of ~A
C21_Witness ==
    /\ Returned
    /\ rule = RuleOf("ExcludedMiddle")
    /\ deps = <<>>
    /\ conclusion = Or2(Not(A), A)
    /\ result = DoesNotOccur(A, Not(Not(A)))

-----------------------------------------------------------------------------
(* Properties of the serialized names (SpecSerial). *)

\* C8: from_serialized_name(to_serialized_name(R)) = Some(R) for every rule R;
\* ALL_RULES and ALL_SERIALIZED_NAMES have the same length, the names are
\* pairwise distinct and the i-th name is the serialized name of the i-th
\* rule; a string that is none of the names deserializes to None.
C8_SerializationRoundTrips ==
    /\ pc = "deserialized" => result = Some(rule)
    /\ pc = "serialized" => \E i \in 1..Len(ALL_RULES) :
                                ALL_RULES[i] = rule /\ ALL_SERIALIZED_NAMES[i] = wire
    /\ (pc = "parsed" /\ wire \notin Range(ALL_SERIALIZED_NAMES)) => result = None
    /\ Len(ALL_RULES) = Len(ALL_SERIALIZED_NAMES)
    /\ \A i, j \in 1..Len(ALL_SERIALIZED_NAMES) :
           ALL_SERIALIZED_NAMES[i] = ALL_SERIALIZED_NAMES[j] => i = j
    /\ \A i \in 1..Len(ALL_RULES) : ToSerializedName(ALL_RULES[i]) = ALL_SERIALIZED_NAMES[i]

\* Modus Tollens has gone to the wire and come back
C8_Witness ==
    /\ pc = "deserialized"
    /\ rule = RuleOf("ModusTollens")
    /\ wire = "MODUS_TOLLENS"
    /\ result = Some(rule)

-----------------------------------------------------------------------------
(* Properties of the id generator (SpecUid). *)

\* C24: as long as the counter has not wrapped around, the values uid() has
\* returned are pairwise different, whichever threads made the calls and in
\* whatever order.
C24_UidUnique ==
    Len(ids) <= 2 ^ UidBits
        => \A i, j \in 1..Len(ids) : i # j => ids[i].id # ids[j].id

\* as many calls as the counter has values, made by more than one thread
C24_Witness ==
    /\ Len(ids) = 2 ^ UidBits
    /\ \E i, j \in 1..Len(ids) : ids[i].thread # ids[j].thread
    /\ nextId = 0

-----------------------------------------------------------------------------
(* Properties of the expression parser (SpecParser). *)

\* how many parentheses are open at token i
Depth(i) ==
    Cardinality({j \in 1..(i - 1) : tokens[j] = "("})
    - Cardinality({j \in 1..(i - 1) : tokens[j] = ")"})
\* the positions of the associative operators outside every parenthesis
TopOps == {i \in 1..Len(tokens) : tokens[i] \in {"&", "|", "<->"} /\ Depth(i) = 0}
\* the operand between the (k-1)-th and the k-th of these operators
Operand(k) ==
    LET lo == IF k = 1 THEN 0
              ELSE CHOOSE i \in TopOps : Cardinality({j \in TopOps : j < i}) = k - 2
        hi == IF k = Cardinality(TopOps) + 1 THEN Len(tokens) + 1
              ELSE CHOOSE i \in TopOps : Cardinality({j \in TopOps : j < i}) = k - 1
    IN SubSeq(tokens, lo + 1, hi - 1)
\* the connective a token stands for
OpOf(t) == CASE t = "&" -> "And" [] t = "|" -> "Or" [] t = "<->" -> "Bicon"
\* the whole text is a chain: operands with associative operators between
IsChain ==
    /\ TopOps # {}
    /\ \A k \in 1..(Cardinality(TopOps) + 1) :
           ParenExpr(Operand(k)).ok /\ ParenExpr(Operand(k)).rest = <<>>

\* C25: a chain of two or more operands is accepted only when all the
\* operators between its operands are the same connective; a chain mixing
\* And, Or and Biconditional at one level is a parse error, and an accepted
\* chain yields one associative node under that connective whose operands
\* are in source order.
C25_ChainsUseOneOperator ==
    (pc = "main" /\ TopOps # {})
        => IF \E i, j \in TopOps : tokens[i] # tokens[j] THEN result = None
           ELSE IsChain
                  => result = Some(Assoc(OpOf(tokens[CHOOSE i \in TopOps : TRUE]),
                                         [k \in 1..(Cardinality(TopOps) + 1) |->
                                             ParenExpr(Operand(k)).val]))

\* A | (A & B) | B: one Or of three operands, the second an And
C25_Witness ==
    /\ pc = "main"
    /\ tokens = <<"A", "|", "(", "A", "&", "B", ")", "|", "B">>
    /\ result = Some(Assoc("Or", <<A, Assoc("And", <<A, B>>), B>>))

-----------------------------------------------------------------------------
(* Properties of proof building (SpecBuild). *)

\* the references returned when adding to t, in the order of the adds
AddedInto(t, kinds) ==
    LET sel == SelectSeq(added, LAMBDA a : a.into = t /\ a.kind \in kinds)
    IN [i \in 1..Len(sel) |->
           IF sel[i].kind = "premise" THEN sel[i].ref
           ELSE [kind |-> IF sel[i].kind = "step" THEN "J" ELSE "S", ref |-> sel[i].ref]]

LinesOf(x) ==
    IF x.kind = "J" THEN {x.ref}
    ELSE ContainedJustifications(proof, LookupSubproof(proof, x.ref))
\* the subproofs the line r lies in
Enclosing(r) ==
    {s \in 1..Len(proof.subproofs) :
        r \in ContainedJustifications(proof, LookupSubproof(proof, s))}
\* the top-level proof and the subproofs, each as its premises followed by
\* its lines
Documents ==
    {[i \in 1..Len(d.premises) |-> J(d.premises[i])] \o d.lines :
        d \in {[premises |-> proof.premises, lines |-> proof.body]}
               \cup Range(proof.subproofs)}

\* C29: calculate_lineinfo gives every premise and justified line of the
\* proof one entry and no entry to anything else; the line numbers are
\* 1..N without gap or repetition and follow the document order (premises
\* before lines, a subproof's lines where its reference stands); the depth
\* of a line is the number of subproofs around it; the depth counter ends
\* at 0; and the web application's copy, started at line 1 and depth 0,
\* gives the same map.
C29_LineinfoNumbersInOrder ==
    pc = "lineinfo" =>
        /\ DOMAIN result.output = 1..Len(proof.lines)
        /\ {result.output[r][1] : r \in DOMAIN result.output} = 1..Len(proof.lines)
        /\ result.line = Len(proof.lines) + 1
        /\ \A r \in DOMAIN result.output :
               result.output[r][2] = Cardinality(Enclosing(r))
        /\ \A d \in Documents : \A i, j \in 1..Len(d) :
               i < j => \A r \in LinesOf(d[i]), q \in LinesOf(d[j]) :
                           result.output[r][1] < result.output[q][1]
        /\ result.depth = 0
        /\ WebCalculateLineinfo(proof, [output |-> <<>>, line |-> 1, depth |-> 0],
                                proof.premises, proof.body).output = result.output

\* a subproof inside a subproof, a step in the inner one at depth 2, and a
\* top-level step after them at depth 0
C29_Witness ==
    /\ pc = "lineinfo"
    /\ \E r, q \in DOMAIN result.output :
          /\ result.output[r] = <<1, 2>>
          /\ result.output[q] = <<2, 0>>

-----------------------------------------------------------------------------
(* Properties of the normal-form comparison (SpecNormalize). *)

\* C28: an equivalence rule checked by comparing normal forms gives the same
\* verdict (Ok or not) when the premise and the conclusion change places,
\* whatever its normalizer is, with the commutative sort and without it.
C28_NormalFormCheckSymmetric ==
    (Returned /\ HasLine(proof, deps[1]))
        => LET back == CHOOSE l \in 1..Len(proof.lines) : LookupExpr(proof, l) = conclusion
           IN IsOk(SharedChecksCheck(rule, proof, LookupExpr(proof, deps[1]), <<back>>, sdeps,
                                     [resumes |-> FALSE, pick |-> 0, eq |-> FALSE,
                                      norm |-> normalizer.normalize_fn,
                                      sort |-> normalizer.sort_commutative_ops]).ret)
                = IsOk(result)

\* Distribution accepts B & A from A & B although their normal forms differ:
\* the commutative sort makes them equal
C28_Witness ==
    /\ Returned
    /\ rule = RuleOf("Distribution")
    /\ deps = <<1>>
    /\ conclusion = Assoc("And", <<B, A>>)
    /\ normalizer.normalize_fn[Assoc("And", <<A, B>>)] # normalizer.normalize_fn[conclusion]
    /\ IsOk(result)

-----------------------------------------------------------------------------
(* Properties of the App component (SpecApp). *)

\* was a TabbedContainerInit handled before the i-th message
InitBefore(i) == \E j \in 1..(i - 1) : handled[j].msg.type = "TabbedContainerInit"

\* C30: a message reaches the tabbed container only from a CreateTab or
\* GetProofFromCurrentTab handled after a TabbedContainerInit; one handled
\* before any TabbedContainerInit sends nothing then or later and leaves the
\* App as it was; and a callback f is called only with a tab name that a
\* RegisterProofName had registered before f's message was handled.
C30_ForwardOnlyAfterInit ==
    /\ \A k \in 1..Len(outbox) :
           outbox[k].to = "TabbedContainer"
               => /\ handled[outbox[k].at].msg.type \in {"CreateTab", "GetProofFromCurrentTab"}
                  /\ InitBefore(outbox[k].at)
    /\ \A i \in 1..Len(handled) :
           (handled[i].msg.type \in {"CreateTab", "GetProofFromCurrentTab"} /\ ~InitBefore(i))
               => /\ \A k \in 1..Len(outbox) : outbox[k].at # i
                  /\ handled[i].after = handled[i].before
    /\ pc = "called"
           => \E j \in 1..(result.f - 1) :
                  /\ handled[j].msg.type = "RegisterProofName"
                  /\ handled[j].msg.name = result.name

\* a GetProofFromCurrentTab before the container's link is there is dropped;
\* the second one, after the link and the registration of tab a, calls f
C30_Witness ==
    /\ pc = "called"
    /\ Len(handled) = 4
    /\ handled[1].msg.type = "GetProofFromCurrentTab"
    /\ handled[2].msg.type = "TabbedContainerInit"
    /\ handled[3].msg.type = "RegisterProofName"
    /\ handled[4].msg.type = "GetProofFromCurrentTab"
    /\ result = [f |-> 4, name |-> "a", prf |-> 2]

=============================================================================
